---- MODULE Spec2Model ----
(***************************************************************************)
(* A model of the reversible document engine: the Editor base class with   *)
(* its undo/redo stacks (src/src/editor/editor.py), the text commands      *)
(* (src/src/command/edit_commands.py) and the XML tree commands            *)
(* (src/src/command/xml_commands.py, src/src/editor/xml_editor.py), and the *)
(* Workspace that holds the open editors (src/src/workspace.py).           *)
(*                                                                         *)
(* A Python str is a sequence of one-character strings; NL is the line     *)
(* break.  A Python object reference to an XMLElement is an index into the *)
(* heap `nodes`; None is 0.                                                *)
(***************************************************************************)
EXTENDS Integers, Sequences, FiniteSets, TLC

\* The attribute names of the Python objects the model holds as records (the
\* command classes, XMLElement, the editor), each declared once; every record
\* below lists its fields in this order.
Fields ==
    [kind |-> 0, line |-> 0, col |-> 0, length |-> 0, text |-> 0,
     line_number |-> 0, old_lines |-> 0, affected_line_count |-> 0,
     deleted_text |-> 0, old_text |-> 0,
     tag |-> 0, id |-> 0, attributes |-> 0, children |-> 0, parent |-> 0,
     new_id |-> 0, target_id |-> 0, parent_id |-> 0, old_id |-> 0, element_id |-> 0,
     new_text |-> 0, attr_name |-> 0, attr_value |-> 0, old_value |-> 0,
     new_element |-> 0, element |-> 0, insert_index |-> 0, index |-> 0,
     deleted_ids |-> 0, old_root |-> 0, old_id_map |-> 0,
     well_formed |-> 0, tree |-> 0,
     cls |-> 0, filepath |-> 0, has_log_line |-> 0,
     content |-> 0, root |-> 0, nodes |-> 0, id_map |-> 0,
     modified |-> 0, undo_stack |-> 0, redo_stack |-> 0,
     editor_objects |-> 0, editors |-> 0, active_editor |-> 0, files |-> 0,
     err |-> 0, ed |-> 0, m |-> 0, cmd |-> 0, marked |-> 0,
     op |-> 0, arg |-> 0, res |-> 0, pre |-> 0, chain |-> 0]

\* ------------------------------------------------------------------ bounds
MaxLines == 4
MaxLineLen == 4
MaxStack == 2
MaxNodes == 5
MaxEditors == 2
MaxWsStack == 1
MaxObjects == 2

NL == "\n"

\* the arguments TextEditor's operations are called with in a session of several
\* calls: a str with and without line breaks; a line and a column inside and above
\* the valid range; a length within and beyond the line
Texts == { <<"x">>, <<"a", NL, "b", NL, "c">> }
AppendTexts == { <<"h", "i">> }
ReplaceTexts == { <<"x", "y">> }
LineArgs == 1 .. 2
ColArgs == {1, 3}
LengthArgs == {1, 2}

\* the arguments XMLEditor's operations are called with in a session: the
\* elements b1 (under the root) and c1, present or not at the time of the call
ChildArgs == { <<"b1", "root">>, <<"c1", "b1">> }
AttrNames == {"id", "k"}

\* the arguments of a single call: every int around the valid ranges, negative
\* ones too, and a str of one, two and three fragments
CallTexts == { <<>>, <<"x", "y">>, <<"a", NL, "b", NL, "c">>, <<"y", NL>> }
CallLines == 0 .. 3
CallCols == 0 .. 4
CallLengths == {0 - 2, 0 - 1, 0, 1, 2, 3, 10}

\* the arguments of a single call on a tree: every id of the tree and one that is
\* not in it, a text with blanks around it, attributes with an 'id' among them
CallIds == {"root", "b1", "c1", "d1"}
CallElementTexts == { <<>>, <<" ", "T">> }
CallAttributes == { <<>>, << <<"id", "zz">>, <<"k", "w">> >> }
CallAttrNames == {"id", "k", "n"}
CallTags == {"root", "lib"}

VARIABLES
    content,      \* TextEditor.content: list of lines
    modified,     \* Editor.modified
    undo_stack,   \* Editor.undo_stack: list of command objects
    redo_stack,   \* Editor.redo_stack
    root,         \* XMLEditor.root (0 = None)
    nodes,        \* the heap of XMLElement objects
    id_map,       \* XMLEditor.id_map: id -> object
    call,         \* the command a caller is about to issue (single-call runs)
    last,         \* history: the last call, its outcome, the state before it
    editor_objects, \* the heap of Editor objects a Workspace has created
    editors,      \* Workspace.editors: filepath -> Editor object
    active_editor, \* Workspace.active_editor (0 = None)
    files,        \* the file system: filepath -> file
    notified,     \* the events the recording observer received during the last call
    active_file,  \* StatisticsObserver.active_file (<<>> = None)
    last_saved    \* history: per editor object, its document when last saved or loaded

\* The variables content .. id_map are one editor used on its own; the editors of
\* a Workspace are the records of editor_objects, with the same attributes.
ws_vars == <<editor_objects, editors, active_editor, files, notified, active_file, last_saved>>

vars == <<content, modified, undo_stack, redo_stack, root, nodes, id_map, call, last,
          editor_objects, editors, active_editor, files, notified, active_file, last_saved>>

\* ------------------------------------------------------- Python built-ins
\* the index Python's slice arithmetic gives for i on a sequence of length n
PyIdx(n, i) == IF i < 0 THEN (IF n + i < 0 THEN 0 ELSE n + i)
               ELSE (IF i > n THEN n ELSE i)

\* s[i:j]
PySlice(s, i, j) == SubSeq(s, PyIdx(Len(s), i) + 1, PyIdx(Len(s), j))

\* s[i:]
PyFrom(s, i) == SubSeq(s, PyIdx(Len(s), i) + 1, Len(s))

\* s[:j]
PyTo(s, j) == SubSeq(s, 1, PyIdx(Len(s), j))

\* list.insert(i, x)
PyInsert(l, i, x) == LET k == PyIdx(Len(l), i)
                     IN  SubSeq(l, 1, k) \o <<x>> \o SubSeq(l, k + 1, Len(l))

\* list.pop(i) for 0 <= i < len(l): the list without element i
PyPop(l, i) == SubSeq(l, 1, i) \o SubSeq(l, i + 2, Len(l))

\* '\n' in text
HasNL(text) == \E i \in 1 .. Len(text) : text[i] = NL

\* text.split('\n')
RECURSIVE SplitFrom(_, _, _)
SplitFrom(text, i, cur) ==
    IF i > Len(text) THEN <<cur>>
    ELSE IF text[i] = NL THEN <<cur>> \o SplitFrom(text, i + 1, <<>>)
    ELSE SplitFrom(text, i + 1, Append(cur, text[i]))

Split(text) == SplitFrom(text, 1, <<>>)

\* ------------------------------------------------------------ text commands
\* a command object of edit_commands.py; a field a class does not have keeps
\* its default
TextCmd(kind, line, col, length, text) ==
    [kind |-> kind, line |-> line, col |-> col, length |-> length, text |-> text,
     line_number |-> 0, old_lines |-> <<>>, affected_line_count |-> 0,
     deleted_text |-> <<>>, old_text |-> <<>>]

\* the document model a command works on
Model == [content |-> content, root |-> root, nodes |-> nodes, id_map |-> id_map]

\* the outcome of Command.execute / Command.undo: the exception raised ("ok" for
\* none), the model as the call left it, the command object as the call left it,
\* and whether mark_modified() was called
Outcome(err, m, cmd, marked) == [err |-> err, m |-> m, cmd |-> cmd, marked |-> marked]

AppendExecute(cmd, m) ==
    LET c1 == Append(m.content, cmd.text)
    IN  Outcome("ok", [m EXCEPT !.content = c1],
                [cmd EXCEPT !.line_number = Len(c1)], TRUE)

AppendUndo(cmd, m) ==
    IF cmd.line_number # 0 /\ Len(m.content) >= cmd.line_number
    THEN Outcome("ok", [m EXCEPT !.content = SubSeq(m.content, 1, Len(m.content) - 1)],
                 cmd, TRUE)
    ELSE Outcome("ok", m, cmd, FALSE)

\* the same loop with every line inserted right below the target line
RECURSIVE InsertLinesBelowTarget(_, _, _, _)
InsertLinesBelowTarget(c, line_idx, ls, i) ==
    IF i > Len(ls) THEN c
    ELSE InsertLinesBelowTarget(PyInsert(c, line_idx + 1, ls[i]), line_idx, ls, i + 1)

\* for i, line in enumerate(ls, start=1): content.insert(line_idx + i, line)
RECURSIVE InsertLines(_, _, _, _)
InsertLines(c, line_idx, ls, i) ==
    IF i > Len(ls) THEN c
    ELSE InsertLines(PyInsert(c, line_idx + i, ls[i]), line_idx, ls, i + 1)

\* the lines after the empty-file branch, were the empty line appended before
\* the position is looked at
EmptyFileLineAppendedFirst(cmd, c) ==
    IF c = <<>> THEN Append(c, <<>>) ELSE c

\* the lines after the empty-file branch of InsertCommand.execute: an empty
\* document gets one empty line when the position is 1:1 (otherwise execute raises
\* before it appends)
EmptyFileLine(cmd, c) ==
    IF c = <<>> /\ cmd.line = 1 /\ cmd.col = 1 THEN Append(c, <<>>) ELSE c

\* the column test with the upper bound len(line)
InsertColumnOutOfRangeStrict(col, current_line) ==
    col < 1 \/ col > Len(current_line)

\* the column test of InsertCommand.execute
InsertColumnOutOfRange(col, current_line) ==
    col < 1 \/ col > Len(current_line) + 1

InsertExecute(cmd, m) ==
    LET empty == m.content = <<>>
        c0 == EmptyFileLine(cmd, m.content)
        m0 == [m EXCEPT !.content = c0]
        line_idx == cmd.line - 1
        col_idx == cmd.col - 1
    IN  IF empty /\ (cmd.line # 1 \/ cmd.col # 1)
        THEN Outcome("EmptyFileInsertException", m0, cmd, FALSE)
        ELSE IF cmd.line < 1 \/ cmd.line > Len(c0)
        THEN Outcome("LineOutOfRangeException", m0, cmd, FALSE)
        ELSE LET current_line == c0[line_idx + 1]
             IN  IF InsertColumnOutOfRange(cmd.col, current_line)
                 THEN Outcome("ColumnOutOfRangeException", m0, cmd, FALSE)
                 ELSE IF HasNL(cmd.text)
                 THEN LET lines_to_insert == Split(cmd.text)
                          k == Len(lines_to_insert)
                          new_first_line == PyTo(current_line, col_idx) \o lines_to_insert[1]
                          middle_lines == SubSeq(lines_to_insert, 2, k - 1)
                          new_last_line == lines_to_insert[k] \o PyFrom(current_line, col_idx)
                          c1 == [c0 EXCEPT ![line_idx + 1] = new_first_line]
                          c2 == InsertLines(c1, line_idx, middle_lines \o <<new_last_line>>, 1)
                      IN  Outcome("ok", [m EXCEPT !.content = c2],
                                  [cmd EXCEPT !.old_lines = <<current_line>>,
                                              !.affected_line_count = k], TRUE)
                 ELSE LET new_line == PyTo(current_line, col_idx) \o cmd.text
                                        \o PyFrom(current_line, col_idx)
                      IN  Outcome("ok", [m EXCEPT !.content = [c0 EXCEPT ![line_idx + 1] = new_line]],
                                  [cmd EXCEPT !.old_lines = <<current_line>>,
                                              !.affected_line_count = 1], TRUE)

\* the same loop stopping one round early
RECURSIVE PopLinesOneFewer(_, _, _)
PopLinesOneFewer(c, line_idx, n) ==
    IF n <= 1 THEN c
    ELSE PopLinesOneFewer(IF line_idx + 1 < Len(c) THEN PyPop(c, line_idx + 1) ELSE c,
                          line_idx, n - 1)

\* for _ in range(n): if line_idx + 1 < len(content): content.pop(line_idx + 1)
RECURSIVE PopLines(_, _, _)
PopLines(c, line_idx, n) ==
    IF n <= 0 THEN c
    ELSE PopLines(IF line_idx + 1 < Len(c) THEN PyPop(c, line_idx + 1) ELSE c,
                  line_idx, n - 1)

InsertUndo(cmd, m) ==
    IF cmd.old_lines = <<>> THEN Outcome("ok", m, cmd, FALSE)
    ELSE LET line_idx == cmd.line - 1
             c1 == IF HasNL(cmd.text)
                   THEN PopLines(m.content, line_idx, Len(Split(cmd.text)) - 1)
                   ELSE m.content
             c2 == IF line_idx < Len(c1)
                   THEN [c1 EXCEPT ![line_idx + 1] = cmd.old_lines[1]] ELSE c1
         IN  Outcome("ok", [m EXCEPT !.content = c2], cmd, TRUE)

\* the column test with the upper bound of insert, len(line) + 1
DeleteColumnOutOfRangeLoose(col, current_line) ==
    col < 1 \/ col > Len(current_line) + 1

\* the column test of DeleteCommand.execute
DeleteColumnOutOfRange(col, current_line) ==
    col < 1 \/ col > Len(current_line)

\* the length test off by one
DeleteLengthExceedsLoose(length, remaining) == length > remaining + 1

\* the length test of DeleteCommand.execute
DeleteLengthExceeds(length, remaining) == length > remaining

DeleteExecute(cmd, m) ==
    IF cmd.line < 1 \/ cmd.line > Len(m.content)
    THEN Outcome("LineOutOfRangeException", m, cmd, FALSE)
    ELSE LET line_idx == cmd.line - 1
             current_line == m.content[line_idx + 1]
             col_idx == cmd.col - 1
             remaining == Len(current_line) - col_idx
         IN  IF DeleteColumnOutOfRange(cmd.col, current_line)
             THEN Outcome("ColumnOutOfRangeException", m, cmd, FALSE)
             ELSE IF DeleteLengthExceeds(cmd.length, remaining)
             THEN Outcome("DeleteLengthExceedsLineException", m, cmd, FALSE)
             ELSE LET deleted_text == PySlice(current_line, col_idx, col_idx + cmd.length)
                      new_line == PyTo(current_line, col_idx)
                                    \o PyFrom(current_line, col_idx + cmd.length)
                  IN  Outcome("ok", [m EXCEPT !.content[line_idx + 1] = new_line],
                              [cmd EXCEPT !.deleted_text = deleted_text], TRUE)

DeleteUndo(cmd, m) ==
    IF cmd.deleted_text = <<>> THEN Outcome("ok", m, cmd, FALSE)
    ELSE LET line_idx == cmd.line - 1
             col_idx == cmd.col - 1
         IN  IF line_idx < Len(m.content)
             THEN LET current_line == m.content[line_idx + 1]
                      new_line == PyTo(current_line, col_idx) \o cmd.deleted_text
                                    \o PyFrom(current_line, col_idx)
                  IN  Outcome("ok", [m EXCEPT !.content[line_idx + 1] = new_line], cmd, TRUE)
             ELSE Outcome("ok", m, cmd, FALSE)

ReplaceExecute(cmd, m) ==
    IF cmd.line < 1 \/ cmd.line > Len(m.content)
    THEN Outcome("LineOutOfRangeException", m, cmd, FALSE)
    ELSE LET line_idx == cmd.line - 1
             current_line == m.content[line_idx + 1]
             col_idx == cmd.col - 1
             remaining == Len(current_line) - col_idx
         IN  IF cmd.col < 1 \/ cmd.col > Len(current_line)
             THEN Outcome("ColumnOutOfRangeException", m, cmd, FALSE)
             ELSE IF cmd.length > remaining
             THEN Outcome("DeleteLengthExceedsLineException", m, cmd, FALSE)
             ELSE LET old_text == PySlice(current_line, col_idx, col_idx + cmd.length)
                      new_line == PyTo(current_line, col_idx) \o cmd.text
                                    \o PyFrom(current_line, col_idx + cmd.length)
                  IN  Outcome("ok", [m EXCEPT !.content[line_idx + 1] = new_line],
                              [cmd EXCEPT !.old_text = old_text], TRUE)

ReplaceUndo(cmd, m) ==
    LET line_idx == cmd.line - 1
        col_idx == cmd.col - 1
    IN  IF line_idx < Len(m.content)
        THEN LET current_line == m.content[line_idx + 1]
                 text_end == col_idx + Len(cmd.text)
                 new_line == PyTo(current_line, col_idx) \o cmd.old_text
                               \o PyFrom(current_line, text_end)
             IN  Outcome("ok", [m EXCEPT !.content[line_idx + 1] = new_line], cmd, TRUE)
        ELSE Outcome("ok", m, cmd, FALSE)

\* ------------------------------------------------------------ Python dict
\* A dict is the sequence of its <<key, value>> items in insertion order.
DictKeys(d) == { d[i][1] : i \in 1 .. Len(d) }

\* key in d
DictHas(d, k) == k \in DictKeys(d)

\* d[key], for a key of d
DictGet(d, k) == d[CHOOSE i \in 1 .. Len(d) : d[i][1] = k][2]

\* d[key] = value: a present key keeps its place, a new one goes last
DictSet(d, k, v) ==
    IF DictHas(d, k)
    THEN [i \in 1 .. Len(d) |-> IF d[i][1] = k THEN <<k, v>> ELSE d[i]]
    ELSE Append(d, <<k, v>>)

\* del d[key], for a key of d
DictDel(d, k) == SelectSeq(d, LAMBDA item : item[1] # k)

\* the items of d as a set: what dict equality compares
DictItems(d) == { d[i] : i \in 1 .. Len(d) }

\* list.index(x) + 1, or 0 where list.index raises ValueError
IndexOf(l, x) == IF \E i \in 1 .. Len(l) : l[i] = x
                 THEN CHOOSE i \in 1 .. Len(l) : l[i] = x /\ \A j \in 1 .. (i - 1) : l[j] # x
                 ELSE 0

\* text.strip(): a str without its leading and trailing blanks
RECURSIVE LStrip(_)
LStrip(t) == IF t # <<>> /\ Head(t) = " " THEN LStrip(Tail(t)) ELSE t

RECURSIVE RStrip(_)
RStrip(t) == IF t # <<>> /\ t[Len(t)] = " " THEN RStrip(SubSeq(t, 1, Len(t) - 1)) ELSE t

Strip(t) == RStrip(LStrip(t))

\* --------------------------------------------------------------- XMLElement
\* XMLElement.__init__(tag, element_id, text)
XMLElement(tag, element_id, text) ==
    [text |-> IF text # <<>> THEN Strip(text) ELSE <<>>,
     tag |-> tag, id |-> element_id, attributes |-> << <<"id", element_id>> >>,
     children |-> <<>>, parent |-> 0]

\* add_child that appends the child and leaves the child's parent as it was
add_child_keeps_parent(ns, self, child) ==
    [ns EXCEPT ![self].children = Append(@, child)]

\* XMLElement.add_child(child) on the element self
add_child(ns, self, child) ==
    LET n1 == [ns EXCEPT ![child].parent = self]
    IN  [n1 EXCEPT ![self].children = Append(@, child)]

\* remove_child that takes the last child out instead of the given one
remove_child_last(ns, self, child) ==
    LET i == IndexOf(ns[self].children, child)
    IN  IF i # 0
        THEN LET n1 == [ns EXCEPT ![self].children = PyPop(@, Len(@) - 1)]
             IN  [n1 EXCEPT ![child].parent = 0]
        ELSE ns

\* XMLElement.remove_child(child)
remove_child(ns, self, child) ==
    LET i == IndexOf(ns[self].children, child)
    IN  IF i # 0
        THEN LET n1 == [ns EXCEPT ![self].children = PyPop(@, i - 1)]
             IN  [n1 EXCEPT ![child].parent = 0]
        ELSE ns

\* insert_child that puts the child last whatever the index
insert_child_last(ns, self, index, child) ==
    LET n1 == [ns EXCEPT ![child].parent = self]
    IN  [n1 EXCEPT ![self].children = Append(@, child)]

\* XMLElement.insert_child(index, child)
insert_child(ns, self, index, child) ==
    LET n1 == [ns EXCEPT ![child].parent = self]
    IN  [n1 EXCEPT ![self].children = PyInsert(@, index, child)]

\* XMLEditor.get_element(element_id): id_map.get(element_id), None as 0
get_element(m, element_id) ==
    IF DictHas(m.id_map, element_id) THEN DictGet(m.id_map, element_id) ELSE 0

\* the same loop without the test of the key
RECURSIVE SetExtraAttributesAll(_, _, _)
SetExtraAttributesAll(attrs, given, i) ==
    IF i > Len(given) THEN attrs
    ELSE SetExtraAttributesAll(DictSet(attrs, given[i][1], given[i][2]), given, i + 1)

\* for key, value in attributes.items(): if key != 'id': element.attributes[key] = value
RECURSIVE SetExtraAttributes(_, _, _)
SetExtraAttributes(attrs, given, i) ==
    IF i > Len(given) THEN attrs
    ELSE SetExtraAttributes(IF given[i][1] # "id"
                            THEN DictSet(attrs, given[i][1], given[i][2]) ELSE attrs,
                            given, i + 1)

\* ------------------------------------------------------------- XML commands
InsertBeforeCommand(tag, new_id, target_id, text, attributes) ==
    [kind |-> "insert_before", text |-> text, tag |-> tag, attributes |-> attributes,
     parent |-> 0, new_id |-> new_id, target_id |-> target_id,
     new_element |-> 0, insert_index |-> 0]

AppendChildCommand(tag, new_id, parent_id, text, attributes) ==
    [kind |-> "append_child", text |-> text, tag |-> tag, attributes |-> attributes,
     parent |-> 0, new_id |-> new_id, parent_id |-> parent_id, new_element |-> 0]

EditIdCommand(old_id, new_id) ==
    [kind |-> "edit_id", new_id |-> new_id, old_id |-> old_id, element |-> 0]

EditTextCommand(element_id, new_text) ==
    [kind |-> "edit_text", old_text |-> <<>>, element_id |-> element_id,
     new_text |-> new_text, element |-> 0]

DeleteElementCommand(element_id) ==
    [kind |-> "delete_element", parent |-> 0, element_id |-> element_id,
     element |-> 0, index |-> 0, deleted_ids |-> <<>>]

\* old_value is an Optional[str]: <<>> for None, <<v>> for the str v
SetAttributeCommand(element_id, attr_name, attr_value) ==
    [kind |-> "set_attribute", element_id |-> element_id, attr_name |-> attr_name,
     attr_value |-> attr_value, old_value |-> <<>>, element |-> 0]

RemoveAttributeCommand(element_id, attr_name) ==
    [kind |-> "remove_attribute", element_id |-> element_id, attr_name |-> attr_name,
     old_value |-> <<>>, element |-> 0]

AppendRootCommand(tag, new_id, text, attributes) ==
    [kind |-> "append_root", text |-> text, tag |-> tag, attributes |-> attributes,
     new_id |-> new_id, old_root |-> 0, old_id_map |-> <<>>]

InsertBeforeExecute(cmd, m) ==
    LET target == get_element(m, cmd.target_id)
    IN  IF DictHas(m.id_map, cmd.new_id)
        THEN Outcome("EditorException: new id exists", m, cmd, FALSE)
        ELSE IF target = 0
        THEN Outcome("EditorException: target missing", m, cmd, FALSE)
        ELSE IF m.nodes[target].parent = 0
        THEN Outcome("EditorException: target is root", m, cmd, FALSE)
        ELSE LET new_element == Len(m.nodes) + 1
                 created == XMLElement(cmd.tag, cmd.new_id, cmd.text)
                 n0 == Append(m.nodes,
                              [created EXCEPT !.attributes =
                                   SetExtraAttributes(@, cmd.attributes, 1)])
                 parent == n0[target].parent
                 at == IndexOf(n0[parent].children, target)
             IN  IF at = 0
                 THEN Outcome("ValueError", [m EXCEPT !.nodes = n0],
                              [cmd EXCEPT !.parent = parent, !.new_element = new_element],
                              FALSE)
                 ELSE Outcome("ok",
                              [m EXCEPT !.nodes = insert_child(n0, parent, at - 1, new_element),
                                        !.id_map = DictSet(@, cmd.new_id, new_element)],
                              [cmd EXCEPT !.parent = parent, !.new_element = new_element,
                                          !.insert_index = at - 1],
                              TRUE)

\* an undo of insert_before / append_child that takes the element out of the
\* tree and leaves its id in the id-index
NewElementUndoKeepsId(cmd, m) ==
    IF cmd.new_element # 0 /\ cmd.parent # 0
    THEN Outcome("ok", [m EXCEPT !.nodes = remove_child(m.nodes, cmd.parent, cmd.new_element)],
                 cmd, TRUE)
    ELSE Outcome("ok", m, cmd, FALSE)

\* InsertBeforeCommand.undo and AppendChildCommand.undo have the same body
NewElementUndo(cmd, m) ==
    IF cmd.new_element # 0 /\ cmd.parent # 0
    THEN LET n1 == remove_child(m.nodes, cmd.parent, cmd.new_element)
         IN  IF DictHas(m.id_map, cmd.new_id)
             THEN Outcome("ok", [m EXCEPT !.nodes = n1, !.id_map = DictDel(@, cmd.new_id)],
                          cmd, TRUE)
             ELSE Outcome("KeyError", [m EXCEPT !.nodes = n1], cmd, FALSE)
    ELSE Outcome("ok", m, cmd, FALSE)

InsertBeforeUndo(cmd, m) == NewElementUndo(cmd, m)

AppendChildExecute(cmd, m) ==
    LET parent == get_element(m, cmd.parent_id)
    IN  IF DictHas(m.id_map, cmd.new_id)
        THEN Outcome("EditorException: new id exists", m, cmd, FALSE)
        ELSE IF parent = 0
        THEN Outcome("EditorException: parent missing", m, [cmd EXCEPT !.parent = 0], FALSE)
        ELSE LET new_element == Len(m.nodes) + 1
                 created == XMLElement(cmd.tag, cmd.new_id, cmd.text)
                 n0 == Append(m.nodes,
                              [created EXCEPT !.attributes =
                                   SetExtraAttributes(@, cmd.attributes, 1)])
             IN  Outcome("ok",
                         [m EXCEPT !.nodes = add_child(n0, parent, new_element),
                                   !.id_map = DictSet(@, cmd.new_id, new_element)],
                         [cmd EXCEPT !.parent = parent, !.new_element = new_element],
                         TRUE)

AppendChildUndo(cmd, m) == NewElementUndo(cmd, m)

EditIdExecute(cmd, m) ==
    LET element == get_element(m, cmd.old_id)
    IN  IF element = 0
        THEN Outcome("EditorException: element missing", m, cmd, FALSE)
        ELSE IF DictHas(m.id_map, cmd.new_id)
        THEN Outcome("EditorException: target id exists", m, cmd, FALSE)
        ELSE LET n1 == [m.nodes EXCEPT ![element].id = cmd.new_id,
                                       ![element].attributes = DictSet(@, "id", cmd.new_id)]
             IN  Outcome("ok",
                         [m EXCEPT !.nodes = n1,
                                   !.id_map = DictSet(DictDel(@, cmd.old_id), cmd.new_id, element)],
                         [cmd EXCEPT !.element = element], TRUE)

\* an undo that renames the element back and leaves its 'id' attribute as it is
EditIdUndoKeepsAttribute(cmd, m) ==
    IF cmd.element # 0
    THEN LET n1 == [m.nodes EXCEPT ![cmd.element].id = cmd.old_id]
         IN  IF DictHas(m.id_map, cmd.new_id)
             THEN Outcome("ok",
                          [m EXCEPT !.nodes = n1,
                                    !.id_map = DictSet(DictDel(@, cmd.new_id), cmd.old_id, cmd.element)],
                          cmd, TRUE)
             ELSE Outcome("KeyError", [m EXCEPT !.nodes = n1], cmd, FALSE)
    ELSE Outcome("ok", m, cmd, FALSE)

EditIdUndo(cmd, m) ==
    IF cmd.element # 0
    THEN LET n1 == [m.nodes EXCEPT ![cmd.element].id = cmd.old_id,
                                   ![cmd.element].attributes = DictSet(@, "id", cmd.old_id)]
         IN  IF DictHas(m.id_map, cmd.new_id)
             THEN Outcome("ok",
                          [m EXCEPT !.nodes = n1,
                                    !.id_map = DictSet(DictDel(@, cmd.new_id), cmd.old_id, cmd.element)],
                          cmd, TRUE)
             ELSE Outcome("KeyError", [m EXCEPT !.nodes = n1], cmd, FALSE)
    ELSE Outcome("ok", m, cmd, FALSE)

EditTextExecute(cmd, m) ==
    LET element == get_element(m, cmd.element_id)
    IN  IF element = 0
        THEN Outcome("EditorException: element missing", m, cmd, FALSE)
        ELSE Outcome("ok", [m EXCEPT !.nodes[element].text = cmd.new_text],
                     [cmd EXCEPT !.old_text = m.nodes[element].text, !.element = element],
                     TRUE)

EditTextUndo(cmd, m) ==
    IF cmd.element # 0
    THEN Outcome("ok", [m EXCEPT !.nodes[cmd.element].text = cmd.old_text], cmd, TRUE)
    ELSE Outcome("ok", m, cmd, FALSE)

\* DeleteElementCommand._collect_ids(element), adding to the dict acc; the second
\* operator is its loop over element.children
RECURSIVE CollectIds(_, _, _)
RECURSIVE CollectChildren(_, _, _, _)
\* _collect_ids without the descent into the children
CollectIdsOfElementOnly(ns, element, acc) == DictSet(acc, ns[element].id, element)

CollectIds(ns, element, acc) ==
    CollectChildren(ns, ns[element].children, 1, DictSet(acc, ns[element].id, element))

CollectChildren(ns, children, i, acc) ==
    IF i > Len(children) THEN acc
    ELSE CollectChildren(ns, children, i + 1, CollectIds(ns, children[i], acc))

\* for elem_id in deleted_ids.keys(): del id_map[elem_id]; <<"KeyError", map>> when
\* a key is not in the map
RECURSIVE DelAll(_, _, _)
DelAll(id_map_, ids, i) ==
    IF i > Len(ids) THEN <<"ok", id_map_>>
    ELSE IF DictHas(id_map_, ids[i][1])
    THEN DelAll(DictDel(id_map_, ids[i][1]), ids, i + 1)
    ELSE <<"KeyError", id_map_>>

\* for elem_id, elem in deleted_ids.items(): id_map[elem_id] = elem
RECURSIVE SetAll(_, _, _)
SetAll(id_map_, ids, i) ==
    IF i > Len(ids) THEN id_map_
    ELSE SetAll(DictSet(id_map_, ids[i][1], ids[i][2]), ids, i + 1)

DeleteElementExecute(cmd, m) ==
    LET element == get_element(m, cmd.element_id)
    IN  IF element = 0
        THEN Outcome("EditorException: element missing", m, cmd, FALSE)
        ELSE IF element = m.root
        THEN Outcome("EditorException: delete root", m, cmd, FALSE)
        ELSE IF m.nodes[element].parent = 0
        THEN Outcome("EditorException: no parent", m, cmd, FALSE)
        ELSE LET parent == m.nodes[element].parent
                 at == IndexOf(m.nodes[parent].children, element)
                 deleted_ids == CollectIds(m.nodes, element, cmd.deleted_ids)
                 c1 == [cmd EXCEPT !.parent = parent, !.element = element,
                                   !.index = at - 1, !.deleted_ids = deleted_ids]
                 n1 == remove_child(m.nodes, parent, element)
                 del == DelAll(m.id_map, deleted_ids, 1)
             IN  IF at = 0
                 THEN Outcome("ValueError", m, cmd, FALSE)
                 ELSE IF del[1] # "ok"
                 THEN Outcome(del[1], [m EXCEPT !.nodes = n1, !.id_map = del[2]], c1, FALSE)
                 ELSE Outcome("ok", [m EXCEPT !.nodes = n1, !.id_map = del[2]], c1, TRUE)

DeleteElementUndo(cmd, m) ==
    IF cmd.element # 0 /\ cmd.parent # 0
    THEN Outcome("ok",
                 [m EXCEPT !.nodes = insert_child(@, cmd.parent, cmd.index, cmd.element),
                           !.id_map = SetAll(@, cmd.deleted_ids, 1)],
                 cmd, TRUE)
    ELSE Outcome("ok", m, cmd, FALSE)

SetAttributeExecute(cmd, m) ==
    LET element == get_element(m, cmd.element_id)
    IN  IF element = 0
        THEN Outcome("EditorException: element missing", m, cmd, FALSE)
        ELSE IF cmd.attr_name = "id"
        THEN Outcome("EditorException: set id", m, cmd, FALSE)
        ELSE LET attrs == m.nodes[element].attributes
                 old_value == IF DictHas(attrs, cmd.attr_name)
                              THEN <<DictGet(attrs, cmd.attr_name)>> ELSE <<>>
             IN  Outcome("ok",
                         [m EXCEPT !.nodes[element].attributes =
                              DictSet(@, cmd.attr_name, cmd.attr_value)],
                         [cmd EXCEPT !.old_value = old_value, !.element = element], TRUE)

\* an undo that tests the old value for truth, so that '' counts as absent
SetAttributeUndoFalsy(cmd, m) ==
    IF cmd.element # 0
    THEN LET attrs == m.nodes[cmd.element].attributes
             a1 == IF cmd.old_value = <<>> \/ cmd.old_value = << "" >>
                   THEN (IF DictHas(attrs, cmd.attr_name)
                         THEN DictDel(attrs, cmd.attr_name) ELSE attrs)
                   ELSE DictSet(attrs, cmd.attr_name, cmd.old_value[1])
         IN  Outcome("ok", [m EXCEPT !.nodes[cmd.element].attributes = a1], cmd, TRUE)
    ELSE Outcome("ok", m, cmd, FALSE)

SetAttributeUndo(cmd, m) ==
    IF cmd.element # 0
    THEN LET attrs == m.nodes[cmd.element].attributes
             a1 == IF cmd.old_value = <<>>
                   THEN (IF DictHas(attrs, cmd.attr_name)
                         THEN DictDel(attrs, cmd.attr_name) ELSE attrs)
                   ELSE DictSet(attrs, cmd.attr_name, cmd.old_value[1])
         IN  Outcome("ok", [m EXCEPT !.nodes[cmd.element].attributes = a1], cmd, TRUE)
    ELSE Outcome("ok", m, cmd, FALSE)

RemoveAttributeExecute(cmd, m) ==
    LET element == get_element(m, cmd.element_id)
    IN  IF element = 0
        THEN Outcome("EditorException: element missing", m, cmd, FALSE)
        ELSE IF cmd.attr_name = "id"
        THEN Outcome("EditorException: remove id", m, cmd, FALSE)
        ELSE IF ~DictHas(m.nodes[element].attributes, cmd.attr_name)
        THEN Outcome("EditorException: attribute missing", m, cmd, FALSE)
        ELSE Outcome("ok",
                     [m EXCEPT !.nodes[element].attributes = DictDel(@, cmd.attr_name)],
                     [cmd EXCEPT !.old_value =
                          <<DictGet(m.nodes[element].attributes, cmd.attr_name)>>,
                                 !.element = element], TRUE)

RemoveAttributeUndo(cmd, m) ==
    IF cmd.element # 0 /\ cmd.old_value # <<>>
    THEN Outcome("ok",
                 [m EXCEPT !.nodes[cmd.element].attributes =
                      DictSet(@, cmd.attr_name, cmd.old_value[1])], cmd, TRUE)
    ELSE Outcome("ok", m, cmd, FALSE)

\* the same test with `and` for `or`
RootIsCustomizedInBoth(element) == element.tag # "root" /\ element.id # "root"

\* self.editor.root.tag != 'root' or self.editor.root.id != 'root'
RootIsCustomized(element) == element.tag # "root" \/ element.id # "root"

AppendRootExecute(cmd, m) ==
    IF m.root # 0 /\ Len(m.nodes[m.root].children) > 0
    THEN Outcome("EditorException: root has children", m, cmd, FALSE)
    ELSE IF m.root # 0 /\ RootIsCustomized(m.nodes[m.root])
    THEN Outcome("EditorException: root customized", m, cmd, FALSE)
    ELSE IF DictHas(m.id_map, cmd.new_id) /\ cmd.new_id # "root"
    THEN Outcome("EditorException: new id exists", m, cmd, FALSE)
    ELSE LET new_root == Len(m.nodes) + 1
             created == XMLElement(cmd.tag, cmd.new_id, cmd.text)
             n0 == Append(m.nodes,
                          [created EXCEPT !.attributes =
                               SetExtraAttributes(@, cmd.attributes, 1)])
         IN  Outcome("ok",
                     [m EXCEPT !.root = new_root, !.nodes = n0,
                               !.id_map = << <<cmd.new_id, new_root>> >>],
                     [cmd EXCEPT !.old_root = m.root, !.old_id_map = m.id_map], TRUE)

\* an undo that puts the old root back and leaves the id_map as it is
AppendRootUndoRootOnly(cmd, m) ==
    IF cmd.old_root # 0
    THEN Outcome("ok", [m EXCEPT !.root = cmd.old_root], cmd, TRUE)
    ELSE Outcome("ok", m, cmd, FALSE)

\* after this undo the editor's id_map is the command's old_id_map object; the
\* command copies the map anew in every execute before it reads it again
AppendRootUndo(cmd, m) ==
    IF cmd.old_root # 0
    THEN Outcome("ok", [m EXCEPT !.root = cmd.old_root, !.id_map = cmd.old_id_map], cmd, TRUE)
    ELSE Outcome("ok", m, cmd, FALSE)

\* ------------------------------------------------------- command dispatch
TextKinds == {"append", "insert", "delete", "replace"}
XmlKinds == {"insert_before", "append_child", "edit_id", "edit_text", "delete_element",
             "set_attribute", "remove_attribute", "append_root"}

\* Command.execute of the command's class
CmdExecute(cmd, m) ==
    CASE cmd.kind = "append" -> AppendExecute(cmd, m)
      [] cmd.kind = "insert" -> InsertExecute(cmd, m)
      [] cmd.kind = "delete" -> DeleteExecute(cmd, m)
      [] cmd.kind = "replace" -> ReplaceExecute(cmd, m)
      [] cmd.kind = "insert_before" -> InsertBeforeExecute(cmd, m)
      [] cmd.kind = "append_child" -> AppendChildExecute(cmd, m)
      [] cmd.kind = "edit_id" -> EditIdExecute(cmd, m)
      [] cmd.kind = "edit_text" -> EditTextExecute(cmd, m)
      [] cmd.kind = "delete_element" -> DeleteElementExecute(cmd, m)
      [] cmd.kind = "set_attribute" -> SetAttributeExecute(cmd, m)
      [] cmd.kind = "remove_attribute" -> RemoveAttributeExecute(cmd, m)
      [] cmd.kind = "append_root" -> AppendRootExecute(cmd, m)

\* Command.undo of the command's class
CmdUndo(cmd, m) ==
    CASE cmd.kind = "append" -> AppendUndo(cmd, m)
      [] cmd.kind = "insert" -> InsertUndo(cmd, m)
      [] cmd.kind = "delete" -> DeleteUndo(cmd, m)
      [] cmd.kind = "replace" -> ReplaceUndo(cmd, m)
      [] cmd.kind = "insert_before" -> InsertBeforeUndo(cmd, m)
      [] cmd.kind = "append_child" -> AppendChildUndo(cmd, m)
      [] cmd.kind = "edit_id" -> EditIdUndo(cmd, m)
      [] cmd.kind = "edit_text" -> EditTextUndo(cmd, m)
      [] cmd.kind = "delete_element" -> DeleteElementUndo(cmd, m)
      [] cmd.kind = "set_attribute" -> SetAttributeUndo(cmd, m)
      [] cmd.kind = "remove_attribute" -> RemoveAttributeUndo(cmd, m)
      [] cmd.kind = "append_root" -> AppendRootUndo(cmd, m)

\* EditCommand.redo: execute again
CmdRedo(cmd, m) == CmdExecute(cmd, m)

\* ------------------------------------------------------------------ history
NoCmd == TextCmd("none", 0, 0, 0, <<>>)

\* the whole document: the model, the modified flag and both stacks
Snap == [content |-> content, root |-> root, nodes |-> nodes, id_map |-> id_map,
         modified |-> modified, undo_stack |-> undo_stack, redo_stack |-> redo_stack]

ExecOps == TextKinds \cup XmlKinds

\* the last call was an operation whose execute succeeded
LastExecOk == last.op \in ExecOps /\ last.res = "ok"

\* the last call was an undo() that undid a command
LastUndoOk == last.op = "undo" /\ last.res = "ok"

\* ------------------------------------------------- exploration bounds (guards)
WithinBounds(m, us, rs) ==
    /\ Len(m.content) <= MaxLines
    /\ \A i \in 1 .. Len(m.content) : Len(m.content[i]) <= MaxLineLen
    /\ Len(us) + Len(rs) <= MaxStack
    /\ Len(m.nodes) <= MaxNodes

\* ------------------------------------------------------------------- Editor
\* the first element of a stack (the oldest command)
StackBottom(stack) == stack[1]

\* the element list.pop() returns: the last one
StackTop(stack) == stack[Len(stack)]

\* the list that list.pop() leaves
StackRest(stack) == SubSeq(stack, 1, Len(stack) - 1)

\* Editor.execute_command(command), called by the operation `op`
execute_command(command, op) ==
    LET r == CmdExecute(command, Model)
        us == IF r.err = "ok" THEN Append(undo_stack, r.cmd) ELSE undo_stack
        rs == IF r.err = "ok" THEN <<>> ELSE redo_stack
    IN  /\ WithinBounds(r.m, us, rs)
        /\ content' = r.m.content
        /\ root' = r.m.root
        /\ nodes' = r.m.nodes
        /\ id_map' = r.m.id_map
        /\ modified' = (modified \/ r.marked)
        /\ undo_stack' = us
        /\ redo_stack' = rs
        /\ call' = call
        /\ last' = [op |-> op, res |-> r.err, pre |-> Snap, chain |-> <<>>]
        /\ UNCHANGED ws_vars

\* Editor.undo()
undo ==
    IF undo_stack = <<>>
    THEN /\ UNCHANGED <<content, modified, undo_stack, redo_stack, root, nodes, id_map, call>>
         /\ UNCHANGED ws_vars
         /\ last' = [op |-> "undo", res |-> "none", pre |-> Snap, chain |-> <<>>]
    ELSE LET command == StackTop(undo_stack)
             us == StackRest(undo_stack)
             r == CmdUndo(command, Model)
             rs == IF r.err = "ok" THEN Append(redo_stack, r.cmd) ELSE redo_stack
         IN  /\ WithinBounds(r.m, us, rs)
             /\ content' = r.m.content
             /\ root' = r.m.root
             /\ nodes' = r.m.nodes
             /\ id_map' = r.m.id_map
             /\ modified' = (modified \/ r.marked)
             /\ undo_stack' = us
             /\ redo_stack' = rs
             /\ call' = call
             /\ last' = [op |-> "undo", res |-> r.err, pre |-> Snap,
                         chain |-> IF LastExecOk THEN <<last.pre>> ELSE <<>>]
             /\ UNCHANGED ws_vars

\* Editor.redo()
redo ==
    IF redo_stack = <<>>
    THEN /\ UNCHANGED <<content, modified, undo_stack, redo_stack, root, nodes, id_map, call>>
         /\ UNCHANGED ws_vars
         /\ last' = [op |-> "redo", res |-> "none", pre |-> Snap, chain |-> <<>>]
    ELSE LET command == StackTop(redo_stack)
             rs == StackRest(redo_stack)
             r == CmdRedo(command, Model)
             us == IF r.err = "ok" THEN Append(undo_stack, r.cmd) ELSE undo_stack
         IN  /\ WithinBounds(r.m, us, rs)
             /\ content' = r.m.content
             /\ root' = r.m.root
             /\ nodes' = r.m.nodes
             /\ id_map' = r.m.id_map
             /\ modified' = (modified \/ r.marked)
             /\ undo_stack' = us
             /\ redo_stack' = rs
             /\ call' = call
             /\ last' = [op |-> "redo", res |-> r.err, pre |-> Snap,
                         chain |-> IF LastUndoOk THEN <<last.pre>> \o last.chain ELSE <<>>]
             /\ UNCHANGED ws_vars

\* --------------------------------------------------------------- TextEditor
\* The document is a TextEditor when root = 0 and an XMLEditor otherwise (an
\* XMLEditor that holds a document always has a root); an operation of the other
\* kind of editor does not exist on the object.
\* TextEditor.append(text)
append == root = 0 /\ \E text \in AppendTexts :
    execute_command(TextCmd("append", 0, 0, 0, text), "append")

\* TextEditor.insert(line, col, text)
insert == root = 0 /\ \E line \in LineArgs, col \in ColArgs, text \in Texts :
    execute_command(TextCmd("insert", line, col, 0, text), "insert")

\* TextEditor.delete(line, col, length)
delete == root = 0 /\ \E line \in LineArgs, col \in ColArgs, length \in LengthArgs :
    execute_command(TextCmd("delete", line, col, length, <<>>), "delete")

\* TextEditor.replace(line, col, length, text)
replace == root = 0 /\ \E line \in LineArgs, col \in ColArgs, length \in LengthArgs,
                           text \in ReplaceTexts :
    execute_command(TextCmd("replace", line, col, length, text), "replace")

\* the line sequences a text document starts with: a new buffer, or a loaded file
LoadedFiles == { << <<"h", "i">> >> }

InitHistory == [op |-> "init", res |-> "ok",
                pre |-> [content |-> <<>>, root |-> 0, nodes |-> <<>>, id_map |-> <<>>,
                         modified |-> FALSE, undo_stack |-> <<>>, redo_stack |-> <<>>],
                chain |-> <<>>]

\* ---------------------------------------------------------------- XMLEditor
\* XMLEditor.insert_before(tag, new_id, target_id, text, attributes)
insert_before == root # 0 /\
    execute_command(InsertBeforeCommand("book", "c1", "b1", <<>>, <<>>), "insert_before")

\* XMLEditor.append_child(tag, new_id, parent_id, text, attributes)
append_child == root # 0 /\ \E a \in ChildArgs :
    execute_command(AppendChildCommand("book", a[1], a[2], <<"T">>, <<>>), "append_child")

\* XMLEditor.edit_id(old_id, new_id)
edit_id == root # 0 /\
    execute_command(EditIdCommand("b1", "c1"), "edit_id")

\* XMLEditor.edit_text(element_id, new_text)
edit_text == root # 0 /\
    execute_command(EditTextCommand("b1", <<"U">>), "edit_text")

\* XMLEditor.delete_element(element_id)
delete_element == root # 0 /\
    execute_command(DeleteElementCommand("b1"), "delete_element")

\* XMLEditor.set_attribute(element_id, attr_name, attr_value)
set_attribute == root # 0 /\ \E attr_name \in AttrNames :
    execute_command(SetAttributeCommand("b1", attr_name, "w"), "set_attribute")

\* XMLEditor.remove_attribute(element_id, attr_name)
remove_attribute == root # 0 /\ \E attr_name \in AttrNames :
    execute_command(RemoveAttributeCommand("b1", attr_name), "remove_attribute")

\* XMLEditor.append_root(tag, new_id, text, attributes)
append_root == root # 0 /\
    execute_command(AppendRootCommand("lib", "lib", <<>>, <<>>), "append_root")

\* a TextEditor after TextEditor.__init__ (an empty buffer) or load_from_file
InitText ==
    /\ \/ content = <<>> /\ modified \in BOOLEAN
       \/ content \in LoadedFiles /\ modified = FALSE
    /\ root = 0
    /\ nodes = <<>>
    /\ id_map = <<>>

\* XMLEditor.load_from_file of a path that does not exist: the default root
DefaultTree ==
    [root |-> 1, nodes |-> << XMLElement("root", "root", <<>>) >>,
     id_map |-> << <<"root", 1>> >>]

\* XMLEditor.load_from_file of
\*   <root id="root"><book id="b1" k="v">T<c id="c1"></c></book></root>
\* as _build_element_tree and _build_id_map build it
LoadedTree ==
    LET r == XMLElement("root", "root", <<>>)
        b == [XMLElement("book", "b1", <<"T">>) EXCEPT
                  !.attributes = DictSet(DictSet(@, "id", "b1"), "k", "v")]
        c == XMLElement("c", "c1", <<>>)
        n0 == <<r, b, c>>
    IN  [root |-> 1, nodes |-> add_child(add_child(n0, 2, 3), 1, 2),
         id_map |-> << <<"root", 1>>, <<"b1", 2>>, <<"c1", 3>> >>]

\* an XMLEditor after load_from_file
InitXml ==
    /\ content = <<>>
    /\ \/ /\ root = DefaultTree.root /\ nodes = DefaultTree.nodes
          /\ id_map = DefaultTree.id_map /\ modified = TRUE
       \/ /\ root = LoadedTree.root /\ nodes = LoadedTree.nodes
          /\ id_map = LoadedTree.id_map /\ modified = FALSE

\* no Workspace: the editor is used on its own
NoWorkspace ==
    /\ editor_objects = <<>>
    /\ editors = <<>>
    /\ active_editor = 0
    /\ files = <<>>
    /\ notified = <<>>
    /\ active_file = <<>>
    /\ last_saved = <<>>

Init ==
    /\ InitText \/ InitXml
    /\ undo_stack = <<>>
    /\ redo_stack = <<>>
    /\ call = NoCmd
    /\ last = InitHistory
    /\ NoWorkspace

Next ==
    \/ append \/ insert \/ delete \/ replace
    \/ insert_before \/ append_child \/ edit_id \/ edit_text
    \/ delete_element \/ set_attribute \/ remove_attribute \/ append_root
    \/ undo \/ redo

Spec == Init /\ [][Next]_vars

\* ------------------------------------------------------- one call on a document
\* the calls of the operation surface of a text document
TextCalls ==
    { TextCmd("append", 0, 0, 0, text) : text \in CallTexts }
    \cup { TextCmd("insert", line, col, 0, text) :
             line \in CallLines, col \in CallCols, text \in CallTexts }
    \cup { TextCmd("delete", line, col, length, <<>>) :
             line \in CallLines, col \in CallCols, length \in CallLengths }
    \cup { TextCmd("replace", line, col, length, text) :
             line \in CallLines, col \in CallCols, length \in CallLengths,
             text \in ReplaceTexts }

\* the text documents the call is made on: an empty buffer and loaded files
CallDocs == { <<>>, << <<>> >>, << <<"h", "i">> >>, << <<"h", "i">>, <<>> >>,
              << <<"a", "b", "c">>, <<"h", "i">> >> }

\* the calls of the operation surface of a tree document
XmlCalls ==
    { InsertBeforeCommand("book", new_id, target_id, text, attributes) :
          new_id \in CallIds, target_id \in CallIds, text \in CallElementTexts,
          attributes \in CallAttributes }
    \cup { AppendChildCommand("book", new_id, parent_id, text, attributes) :
             new_id \in CallIds, parent_id \in CallIds, text \in CallElementTexts,
             attributes \in CallAttributes }
    \cup { EditIdCommand(old_id, new_id) : old_id \in CallIds, new_id \in CallIds }
    \cup { EditTextCommand(element_id, new_text) :
             element_id \in CallIds, new_text \in CallElementTexts }
    \cup { DeleteElementCommand(element_id) : element_id \in CallIds }
    \cup { SetAttributeCommand(element_id, attr_name, "w") :
             element_id \in CallIds, attr_name \in CallAttrNames }
    \cup { RemoveAttributeCommand(element_id, attr_name) :
             element_id \in CallIds, attr_name \in CallAttrNames }
    \cup { AppendRootCommand(tag, new_id, text, attributes) :
             tag \in CallTags, new_id \in CallIds, text \in CallElementTexts,
             attributes \in CallAttributes }

\* XMLEditor.load_from_file of
\*   <root id="root"><book id="b1" n="1"></book><book id="c1"></book></root>
SiblingTree ==
    LET r == XMLElement("root", "root", <<>>)
        b == [XMLElement("book", "b1", <<>>) EXCEPT
                  !.attributes = DictSet(DictSet(@, "id", "b1"), "n", "1")]
        c == XMLElement("book", "c1", <<>>)
        n0 == <<r, b, c>>
    IN  [root |-> 1, nodes |-> add_child(add_child(n0, 1, 2), 1, 3),
         id_map |-> << <<"root", 1>>, <<"b1", 2>>, <<"c1", 3>> >>]

\* XMLEditor.load_from_file of <lib id="root"></lib>
CustomTagTree ==
    [root |-> 1, nodes |-> << XMLElement("lib", "root", <<>>) >>,
     id_map |-> << <<"root", 1>> >>]

\* XMLEditor.load_from_file of <root id="lib"></root>
CustomIdTree ==
    [root |-> 1, nodes |-> << XMLElement("root", "lib", <<>>) >>,
     id_map |-> << <<"lib", 1>> >>]

\* XMLEditor.load_from_file of <root id="root"><book id="b1" k=""></book></root>
EmptyAttributeTree ==
    LET r == XMLElement("root", "root", <<>>)
        b == [XMLElement("book", "b1", <<>>) EXCEPT
                  !.attributes = DictSet(DictSet(@, "id", "b1"), "k", "")]
    IN  [root |-> 1, nodes |-> add_child(<<r, b>>, 1, 2),
         id_map |-> << <<"root", 1>>, <<"b1", 2>> >>]

\* XMLEditor.load_from_file of
\*   <root id="root"><book id="b1" k="v" n="1"></book></root>
TwoAttributeTree ==
    LET r == XMLElement("root", "root", <<>>)
        b == [XMLElement("book", "b1", <<>>) EXCEPT
                  !.attributes = DictSet(DictSet(DictSet(@, "id", "b1"), "k", "v"), "n", "1")]
    IN  [root |-> 1, nodes |-> add_child(<<r, b>>, 1, 2),
         id_map |-> << <<"root", 1>>, <<"b1", 2>> >>]

\* the tree documents the call is made on
XmlDocs == { DefaultTree, LoadedTree, SiblingTree, CustomTagTree, CustomIdTree,
             EmptyAttributeTree, TwoAttributeTree }

\* TextEditor.append / insert / delete / replace, called with the arguments `call`
text_call ==
    /\ last.op = "init"
    /\ call.kind \in TextKinds
    /\ execute_command(call, call.kind)

\* one of XMLEditor's eight operations, called with the arguments `call`
xml_call ==
    /\ last.op = "init"
    /\ call.kind \in XmlKinds
    /\ execute_command(call, call.kind)

InitCall ==
    /\ \/ /\ content \in CallDocs /\ root = 0 /\ nodes = <<>> /\ id_map = <<>>
          /\ call \in TextCalls
       \/ /\ content = <<>>
          /\ \E d \in XmlDocs : root = d.root /\ nodes = d.nodes /\ id_map = d.id_map
          /\ call \in XmlCalls
    /\ modified = FALSE
    /\ undo_stack = <<>>
    /\ redo_stack = <<>>
    /\ last = InitHistory
    /\ NoWorkspace

NextCall == text_call \/ xml_call \/ undo \/ redo

SpecCall == InitCall /\ [][NextCall]_vars

\* --------------------------------------------------------- TextEditor.show
\* str(n) for an int n >= 0
Digits == <<"0", "1", "2", "3", "4", "5", "6", "7", "8", "9">>
RECURSIVE Str(_)
Str(n) == IF n < 10 THEN <<Digits[n + 1]>> ELSE Str(n \div 10) \o <<Digits[(n % 10) + 1]>>

\* [f"{i + 1}: {self.content[i]}" for i in range(start - 1, end)]
NumberedLines(lines, start, end) ==
    [k \in 1 .. (end - start + 1) |->
        Str(start + k - 1) \o <<":", " ">> \o lines[start + k - 1]]

\* '\n'.join(result)
RECURSIVE JoinNumbered(_)
JoinNumbered(result) ==
    IF result = <<>> THEN <<>>
    ELSE IF Len(result) = 1 THEN result[1]
    ELSE result[1] \o <<NL>> \o JoinNumbered(Tail(result))

\* TextEditor.show(start_line, end_line) on the lines `lines`; an argument is
\* <<>> for None and <<n>> for the int n. The exception raised and the str
\* returned
show(lines, start_line, end_line) ==
    IF lines = <<>> THEN [err |-> "ok", res |-> <<>>]
    ELSE LET start == IF start_line = <<>> THEN 1 ELSE start_line[1]
             end == IF end_line = <<>> THEN Len(lines) ELSE end_line[1]
         IN  IF start < 1 \/ start > Len(lines)
             THEN [err |-> "LineOutOfRangeException", res |-> <<>>]
             ELSE IF end < 1 \/ end > Len(lines)
             THEN [err |-> "LineOutOfRangeException", res |-> <<>>]
             ELSE IF start > end
             THEN [err |-> "LineOutOfRangeException", res |-> <<>>]
             ELSE [err |-> "ok", res |-> JoinNumbered(NumberedLines(lines, start, end))]

\* the bounds show is called with: None, and every int around the valid range
ShowArgs == {<<>>} \cup { <<n>> : n \in 0 .. 3 }

\* editor.show(start_line, end_line)
show_call == \E start_line \in ShowArgs, end_line \in ShowArgs :
    /\ UNCHANGED <<content, modified, undo_stack, redo_stack, root, nodes, id_map, call>>
    /\ UNCHANGED ws_vars
    /\ last' = [op |-> "show", arg |-> <<start_line, end_line>>,
                res |-> show(content, start_line, end_line), pre |-> Snap, chain |-> <<>>]

\* a TextEditor with one of the documents of CallDocs, saved or not
InitShow ==
    /\ content \in CallDocs
    /\ modified \in BOOLEAN
    /\ undo_stack = <<>>
    /\ redo_stack = <<>>
    /\ root = 0
    /\ nodes = <<>>
    /\ id_map = <<>>
    /\ call = NoCmd
    /\ last = InitHistory
    /\ NoWorkspace

NextShow == show_call

SpecShow == InitShow /\ [][NextShow]_vars

\* ----------------------------------------------------- Editor, as an object
\* The editors of a Workspace are records with the attributes of the Editor
\* classes; cls is the class of the object.  A TextEditor has no root, nodes,
\* id_map and has_log_line, an XMLEditor no content: the record keeps them at
\* their empty values.
\* TextEditor.__init__(filepath)
TextEditorNew(filepath) ==
    [cls |-> "TextEditor", filepath |-> filepath, has_log_line |-> FALSE,
     content |-> <<>>, root |-> 0, nodes |-> <<>>, id_map |-> <<>>,
     modified |-> FALSE, undo_stack |-> <<>>, redo_stack |-> <<>>]

\* XMLEditor.__init__(filepath)
XMLEditorNew(filepath) ==
    [cls |-> "XMLEditor", filepath |-> filepath, has_log_line |-> FALSE,
     content |-> <<>>, root |-> 0, nodes |-> <<>>, id_map |-> <<>>,
     modified |-> FALSE, undo_stack |-> <<>>, redo_stack |-> <<>>]

\* the document model of the editor object ed
EditorModel(ed) ==
    [content |-> ed.content, root |-> ed.root, nodes |-> ed.nodes, id_map |-> ed.id_map]

\* the editor object ed with the document model m
WithModel(ed, m) ==
    [ed EXCEPT !.content = m.content, !.root = m.root, !.nodes = m.nodes,
               !.id_map = m.id_map]

\* Editor.execute_command(command) on the object ed: the exception raised and
\* the object as the call left it
EditorExecuteCommand(ed, command) ==
    LET r == CmdExecute(command, EditorModel(ed))
        e1 == [WithModel(ed, r.m) EXCEPT !.modified = @ \/ r.marked]
    IN  [err |-> r.err,
         ed |-> IF r.err = "ok"
                THEN [e1 EXCEPT !.undo_stack = Append(@, r.cmd), !.redo_stack = <<>>]
                ELSE e1]

\* an undo or redo on an empty stack that marks the document modified
NothingDoneMarked(ed) == [err |-> "none", ed |-> [ed EXCEPT !.modified = TRUE]]

\* `if not self.undo_stack: return None`, `if not self.redo_stack: return None`:
\* the object is left as it is
NothingDone(ed) == [err |-> "none", ed |-> ed]

\* Editor.undo() on the object ed; err is "none" when there was nothing to undo
EditorUndo(ed) ==
    IF ed.undo_stack = <<>> THEN NothingDone(ed)
    ELSE LET command == StackTop(ed.undo_stack)
             r == CmdUndo(command, EditorModel(ed))
             e1 == [WithModel(ed, r.m) EXCEPT !.modified = @ \/ r.marked,
                                              !.undo_stack = StackRest(@)]
         IN  [err |-> r.err,
              ed |-> IF r.err = "ok" THEN [e1 EXCEPT !.redo_stack = Append(@, r.cmd)]
                     ELSE e1]

\* Editor.redo() on the object ed
EditorRedo(ed) ==
    IF ed.redo_stack = <<>> THEN NothingDone(ed)
    ELSE LET command == StackTop(ed.redo_stack)
             r == CmdRedo(command, EditorModel(ed))
             e1 == [WithModel(ed, r.m) EXCEPT !.modified = @ \/ r.marked,
                                              !.redo_stack = StackRest(@)]
         IN  [err |-> r.err,
              ed |-> IF r.err = "ok" THEN [e1 EXCEPT !.undo_stack = Append(@, r.cmd)]
                     ELSE e1]

\* ------------------------------------------------------------- file system
\* str.endswith(suffix)
EndsWith(s, suffix) ==
    Len(s) >= Len(suffix) /\ SubSeq(s, Len(s) - Len(suffix) + 1, Len(s)) = suffix

\* str.splitlines() for a text whose only line break is '\n': the fragments
\* between the line breaks, without an empty fragment after a final line break
SplitLines(text) ==
    LET f == Split(text)
    IN  IF f[Len(f)] = <<>> THEN SubSeq(f, 1, Len(f) - 1) ELSE f

\* A text file is its content `text`.  An XML file is given by what
\* XMLEditor.load_from_file reads from it: has_log_line, whether its first line
\* starts with '# log'; well_formed, whether ET.fromstring and
\* _build_element_tree accept the rest; tree, the root and id_map they build.
TextFile(text) == [text |-> text, well_formed |-> FALSE, tree |-> DefaultTree,
                   has_log_line |-> FALSE]
XmlFile(has_log_line, well_formed, tree) ==
    [text |-> <<>>, well_formed |-> well_formed, tree |-> tree,
     has_log_line |-> has_log_line]

\* the file paths of the runs, as os.path.normpath returns them
PathText == <<"t", ".", "t", "x", "t">>
PathTextLog == <<"l", ".", "t", "x", "t">>
PathTextNew == <<"n", ".", "t", "x", "t">>
PathXml == <<"t", ".", "x", "m", "l">>
PathXmlLog == <<"l", ".", "x", "m", "l">>
PathXmlNew == <<"n", ".", "x", "m", "l">>
PathXmlBad == <<"b", ".", "x", "m", "l">>
Paths == {PathText, PathTextLog, PathTextNew, PathXml, PathXmlLog, PathXmlNew, PathXmlBad}

\* the files on disk: t.txt is 'hi\n', l.txt is '# log\nhi', t.xml holds the tree
\* of LoadedTree, l.xml a '# log' line and <root id="root"></root>, b.xml is not
\* well-formed; n.txt and n.xml do not exist
FileSystem ==
    << <<PathText, TextFile(<<"h", "i", NL>>)>>,
       <<PathTextLog, TextFile(<<"#", " ", "l", "o", "g", NL, "h", "i">>)>>,
       <<PathXml, XmlFile(FALSE, TRUE, LoadedTree)>>,
       <<PathXmlLog, XmlFile(TRUE, TRUE, DefaultTree)>>,
       <<PathXmlBad, XmlFile(FALSE, FALSE, DefaultTree)>> >>

\* TextEditor.load_from_file(filepath) on the new object ed
TextLoadFromFile(ed, fs, filepath) ==
    IF DictHas(fs, filepath)
    THEN LET text == DictGet(fs, filepath).text
         IN  [err |-> "ok",
              ed |-> [ed EXCEPT !.filepath = filepath,
                                !.content = IF text # <<>> THEN SplitLines(text) ELSE <<>>,
                                !.modified = FALSE]]
    ELSE [err |-> "ok",
          ed |-> [ed EXCEPT !.filepath = filepath, !.content = <<>>, !.modified = TRUE]]

\* XMLEditor.load_from_file(filepath) on the new object ed
XmlLoadFromFile(ed, fs, filepath) ==
    IF DictHas(fs, filepath)
    THEN LET file == DictGet(fs, filepath)
             e1 == [ed EXCEPT !.filepath = filepath,
                              !.has_log_line = @ \/ file.has_log_line]
         IN  IF file.well_formed
             THEN [err |-> "ok",
                   ed |-> [e1 EXCEPT !.root = file.tree.root, !.nodes = file.tree.nodes,
                                     !.id_map = file.tree.id_map, !.modified = FALSE]]
             ELSE [err |-> "IOError", ed |-> e1]
    ELSE [err |-> "ok",
          ed |-> [ed EXCEPT !.filepath = filepath,
                            !.root = DefaultTree.root, !.nodes = DefaultTree.nodes,
                            !.id_map = DefaultTree.id_map, !.modified = TRUE]]

\* editor.parse_log_config(): <<exception, log_enabled>>; only XMLEditor has the
\* method
parse_log_config(ed) ==
    IF ed.cls = "XMLEditor" THEN <<"ok", ed.has_log_line>> ELSE <<"AttributeError", FALSE>>

\* self.logger.enable_logging(filepath, exclude_cmds): Logger.enable_logging
\* takes the filepath only
enable_logging_with_excludes == "TypeError"

\* the methods every Editor has: those of the base class and the abstract ones
EditorMembers == {"load_from_file", "save_to_file", "get_content_string", "mark_modified",
                  "clear_modified", "is_modified", "execute_command", "undo", "redo",
                  "check_log_enabled"}

\* the editing operations of the two editor classes only
HasOperationOfSurface(ed, operation) ==
    IF ed.cls = "TextEditor" THEN operation \in TextKinds \cup {"show"}
    ELSE operation \in XmlKinds \cup {"show_tree"}

\* hasattr(editor, operation): the operation names an attribute of the object,
\* an editing method of its class or a method inherited from Editor
HasOperation(ed, operation) ==
    \/ operation \in EditorMembers
    \/ IF ed.cls = "TextEditor" THEN operation \in TextKinds \cup {"show"}
       ELSE operation \in XmlKinds \cup {"show_tree"}

\* ---------------------------------------------------------------- Workspace
\* the events of Subject.notify(event_type, data)
FileLoaded(filepath, auto_enable) == <<"file_loaded", filepath, auto_enable>>
FileActivated(filepath) == <<"file_activated", filepath>>
FileClosed(filepath) == <<"file_closed", filepath>>
CommandExecuted(filepath, command) == <<"command_executed", filepath, command>>

\* the observers attached to the Workspace, in the order of their attachment: one
\* whose update raises on every event, then one that records what it receives
Observers == <<"raising", "recording">>

\* observer.update(event_type, data): the exception it raises, "ok" for none
Update(observer) == IF observer = "raising" THEN "Exception" ELSE "ok"

\* a notify without the try: the observers whose update is called, up to the
\* first one that raises
RECURSIVE NotifyUntilFailure(_, _)
NotifyUntilFailure(observers, i) ==
    IF i > Len(observers) THEN {}
    ELSE IF Update(observers[i]) # "ok" THEN {i}
    ELSE {i} \cup NotifyUntilFailure(observers, i + 1)

\* Subject.notify(event_type, data): the observers whose update is called; an
\* exception of update is caught and printed as a warning
RECURSIVE Notify(_, _)
Notify(observers, i) ==
    IF i > Len(observers) THEN {}
    ELSE {i} \cup Notify(observers, i + 1)

\* the events of `events`, notified one after the other, that the recording
\* observer receives
Received(events) ==
    SelectSeq(events, LAMBDA event :
                          \E i \in Notify(Observers, 1) : Observers[i] = "recording")

\* StatisticsObserver.update for the events events[i..]: file_activated stops the
\* current timing and starts the timing of the path, file_closed stops the
\* current timing, any other event is ignored
RECURSIVE StatisticsUpdate(_, _, _)
StatisticsUpdate(active, events, i) ==
    IF i > Len(events) THEN active
    ELSE IF events[i][1] = "file_activated"
    THEN StatisticsUpdate(events[i][2], events, i + 1)
    ELSE IF events[i][1] = "file_closed"
    THEN StatisticsUpdate(<<>>, events, i + 1)
    ELSE StatisticsUpdate(active, events, i + 1)

\* self.notify(...) for each event of `events` in turn: every attached observer
\* is updated, the statistics observer of the Workspace among them
notify_each(events) ==
    /\ notified' = Received(events)
    /\ active_file' = StatisticsUpdate(active_file, events, 1)

\* the Workspace: its editor objects, its registry and its active pointer
WsSnap == [editor_objects |-> editor_objects, editors |-> editors,
           active_editor |-> active_editor, files |-> files]

editor_vars == <<content, modified, undo_stack, redo_stack, root, nodes, id_map, call>>

\* the first editor of the registry
FirstEditor(registry, filepath) == registry[1][2]

\* self.editors[filepath]
OpenEditor(registry, filepath) == DictGet(registry, filepath)

\* the editor load_file creates for filepath, XMLEditor for a path that ends
\* with '.xml' and TextEditor otherwise, after its load_from_file(filepath)
CreateAndLoad(fs, filepath) ==
    LET created == IF EndsWith(filepath, <<".", "x", "m", "l">>)
                   THEN XMLEditorNew(filepath) ELSE TextEditorNew(filepath)
    IN  IF created.cls = "XMLEditor"
        THEN XmlLoadFromFile(created, fs, filepath)
        ELSE TextLoadFromFile(created, fs, filepath)

\* Workspace.load_file(filepath)
load_file == \E filepath \in Paths :
    LET r == CreateAndLoad(files, filepath)
        editor == Len(editor_objects) + 1
        config == parse_log_config(r.ed)
        done(res) == last' = [op |-> "load_file", arg |-> filepath, res |-> res,
                              pre |-> WsSnap, chain |-> <<>>]
    IN  /\ UNCHANGED <<editor_vars, files>>
        /\ IF DictHas(editors, filepath)
           THEN /\ active_editor' = OpenEditor(editors, filepath)
                /\ notify_each(<< FileActivated(filepath) >>)
                /\ UNCHANGED <<editor_objects, editors>>
                /\ done("already open")
           ELSE /\ Len(editors) < MaxEditors
                /\ Len(editor_objects) < MaxObjects
                /\ IF r.err # "ok"
                   THEN /\ UNCHANGED <<editor_objects, editors, active_editor>>
                        /\ notify_each(<<>>)
                        /\ done("Error: " \o r.err)
                   ELSE /\ editor_objects' = Append(editor_objects, r.ed)
                        /\ editors' = DictSet(editors, filepath, editor)
                        /\ active_editor' = editor
                        /\ IF config[1] # "ok"
                           THEN notify_each(<<>>) /\ done("Error: " \o config[1])
                           ELSE IF config[2]
                           THEN /\ notify_each(<<>>)
                                /\ done("Error: " \o enable_logging_with_excludes)
                           ELSE /\ notify_each(<< FileLoaded(filepath, FALSE),
                                                FileActivated(filepath) >>)
                                /\ done(IF DictHas(files, filepath)
                                        THEN "Loaded" ELSE "new buffer")
        /\ last_saved' = IF Len(editor_objects') > Len(editor_objects)
                    THEN Append(last_saved, EditorModel(r.ed)) ELSE last_saved

\* the paths the calls on open documents are tried with: every open path, and
\* one path that is never open
PathsTried == { filepath \in Paths : DictHas(editors, filepath) } \cup {PathXmlBad}

\* Workspace.edit_file(filepath)
edit_file == \E filepath \in PathsTried :
    /\ UNCHANGED <<editor_vars, last_saved, files, editor_objects, editors>>
    /\ IF ~DictHas(editors, filepath)
       THEN /\ UNCHANGED active_editor
            /\ notify_each(<<>>)
            /\ last' = [op |-> "edit_file", arg |-> filepath, res |-> "Error: not open",
                        pre |-> WsSnap, chain |-> <<>>]
       ELSE /\ active_editor' = OpenEditor(editors, filepath)
            /\ notify_each(<< FileActivated(filepath) >>)
            /\ last' = [op |-> "edit_file", arg |-> filepath, res |-> "switched",
                        pre |-> WsSnap, chain |-> <<>>]

\* an Editor object that nothing refers to any more
Collected == [cls |-> "collected"]

\* a close that never asks for the save prompt
NeedsSavePromptNever(ed, force) == FALSE

\* editor.is_modified() and not force
NeedsSavePrompt(ed, force) == ed.modified /\ ~force

\* a close that leaves the registry as it is
WithoutFileKept(registry, filepath) == registry

\* del self.editors[filepath]
WithoutFile(registry, filepath) == DictDel(registry, filepath)

\* list(self.editors.values())[-1]
LastEditor(registry) == registry[Len(registry)][2]

\* Workspace.close_file(filepath, force); filepath None is <<>>
close_file == \E filepath \in PathsTried \cup {<<>>}, force \in BOOLEAN :
    LET done(res) == last' = [op |-> "close_file", arg |-> <<filepath, force>>,
                              res |-> res, pre |-> WsSnap, chain |-> <<>>]
        nothing(res) == /\ UNCHANGED <<editor_objects, editors, active_editor>>
                        /\ notify_each(<<>>)
                        /\ done(res)
    IN  /\ UNCHANGED <<editor_vars, last_saved, files>>
        /\ IF filepath # <<>> /\ ~DictHas(editors, filepath)
           THEN nothing("Error: not open")
           ELSE IF filepath = <<>> /\ active_editor = 0
           THEN nothing("Error: no active file")
           ELSE LET editor == IF filepath # <<>> THEN OpenEditor(editors, filepath)
                              ELSE active_editor
                    path == IF filepath # <<>> THEN filepath
                            ELSE editor_objects[editor].filepath
                    rest == WithoutFile(editors, path)
                IN  IF NeedsSavePrompt(editor_objects[editor], force)
                    THEN nothing("save prompt")
                    ELSE IF ~DictHas(editors, path)
                    THEN nothing("KeyError")
                    ELSE /\ editors' = rest
                         /\ editor_objects' = [editor_objects EXCEPT ![editor] = Collected]
                         /\ IF active_editor = editor
                            THEN IF rest # <<>>
                                 THEN /\ active_editor' = LastEditor(rest)
                                      /\ notify_each(<< FileClosed(path),
                                             FileActivated(
                                                 editor_objects[LastEditor(rest)].filepath),
                                             CommandExecuted(path, <<"close", path>>) >>)
                                      /\ done("Closed, switched")
                                 ELSE /\ active_editor' = 0
                                      /\ notify_each(<< FileClosed(path),
                                             CommandExecuted(path, <<"close", path>>) >>)
                                      /\ done("Closed")
                            ELSE /\ UNCHANGED active_editor
                                 /\ notify_each(<< FileClosed(path),
                                                CommandExecuted(path, <<"close", path>>) >>)
                                 /\ done("Closed")

\* '\n'.join(lines)
RECURSIVE JoinLines(_)
JoinLines(lines) ==
    IF lines = <<>> THEN <<>>
    ELSE IF Len(lines) = 1 THEN lines[1]
    ELSE lines[1] \o <<NL>> \o JoinLines(Tail(lines))

\* the text holds a character that _serialize_element writes unescaped and
\* ET.fromstring reads as markup
HasMarkup(text) == \E i \in 1 .. Len(text) : text[i] \in {"<", "&"}

\* the attributes _build_element_tree gives an element it reads back: 'id' from
\* XMLElement.__init__, then every written attribute in the written order
RECURSIVE ReadAttributes(_, _, _)
ReadAttributes(written, i, acc) ==
    IF i > Len(written) THEN acc
    ELSE ReadAttributes(written, i + 1, DictSet(acc, written[i][1], written[i][2]))

\* _build_element_tree on what _serialize_element wrote for `element` of the
\* heap ns: the new objects, appended to acc in the order of their creation
RECURSIVE BuildElementTree(_, _, _, _)
RECURSIVE BuildChildren(_, _, _, _, _)
BuildElementTree(ns, element, parent_, acc) ==
    LET e == ns[element]
        elem_id == IF DictHas(e.attributes, "id") THEN DictGet(e.attributes, "id") ELSE ""
        built == [XMLElement(e.tag, elem_id, e.text) EXCEPT
                     !.attributes = ReadAttributes(e.attributes, 1, @),
                     !.parent = parent_]
    IN  BuildChildren(ns, e.children, 1, Len(acc) + 1, Append(acc, built))

BuildChildren(ns, children, i, self, acc) ==
    IF i > Len(children) THEN acc
    ELSE LET a1 == BuildElementTree(ns, children[i], self, acc)
         IN  BuildChildren(ns, children, i + 1, self,
                           [a1 EXCEPT ![self].children = Append(@, Len(acc) + 1)])

\* what XMLEditor.load_from_file reads from the file XMLEditor.save_to_file
\* writes for the editor ed: the tree, and whether ET.fromstring,
\* _build_element_tree (every element has a non-empty id attribute) and
\* _add_to_id_map (no id twice) accept it
XmlWritten(ed) ==
    LET built == BuildElementTree(ed.nodes, ed.root, 0, <<>>)
        accepted == /\ \A o \in DOMAIN built : built[o].id # "" /\ ~HasMarkup(built[o].text)
                    /\ \A o, q \in DOMAIN built : built[o].id = built[q].id => o = q
    IN  XmlFile(ed.has_log_line, accepted,
                [root |-> 1, nodes |-> built, id_map |-> CollectIds(built, 1, <<>>)])

\* editor.save_to_file(): the file it writes
SavedFile(ed) ==
    IF ed.cls = "TextEditor" THEN TextFile(JoinLines(ed.content)) ELSE XmlWritten(ed)

\* a save_to_file that writes the file and keeps the modified flag
SaveToFileKeepsFlag(ed) == ed

\* editor.save_to_file(): the editor object after it
SaveToFile(ed) == [ed EXCEPT !.modified = FALSE]

\* the target 'all' of save_file
All == <<"a", "l", "l">>

\* _save_all_files: editor.save_to_file() for every editor of the registry
RECURSIVE SaveAll(_, _, _, _)
SaveAll(registry, i, objects, fs) ==
    IF i > Len(registry) THEN <<objects, fs>>
    ELSE LET editor == registry[i][2]
         IN  SaveAll(registry, i + 1, [objects EXCEPT ![editor] = SaveToFile(@)],
                     DictSet(fs, registry[i][1], SavedFile(objects[editor])))

\* Workspace.save_file(target); target None is <<>>
save_file == \E target \in PathsTried \cup {<<>>, All} :
    LET done(res) == last' = [op |-> "save_file", arg |-> target, res |-> res,
                              pre |-> WsSnap, chain |-> <<>>]
        nothing(res) == /\ UNCHANGED <<editor_objects, files, last_saved>>
                        /\ notify_each(<<>>)
                        /\ done(res)
        save(editor, command) ==
            LET filepath == editor_objects[editor].filepath
            IN  /\ editor_objects' = [editor_objects EXCEPT ![editor] = SaveToFile(@)]
                /\ last_saved' = [last_saved EXCEPT ![editor] = EditorModel(editor_objects[editor])]
                /\ files' = DictSet(files, filepath, SavedFile(editor_objects[editor]))
                /\ notify_each(<< CommandExecuted(filepath, command) >>)
                /\ done("Saved")
    IN  /\ UNCHANGED <<editor_vars, editors, active_editor>>
        /\ IF target = All
           THEN IF editors = <<>> THEN nothing("no open files")
                ELSE LET r == SaveAll(editors, 1, editor_objects, files)
                     IN  /\ editor_objects' = r[1]
                         /\ files' = r[2]
                         /\ last_saved' = [i \in DOMAIN last_saved |->
                                          IF \E k \in DOMAIN editors : editors[k][2] = i
                                          THEN EditorModel(editor_objects[i])
                                          ELSE last_saved[i]]
                         /\ notify_each(IF active_editor # 0
                                        THEN << CommandExecuted(
                                                    editor_objects[active_editor].filepath,
                                                    <<"save all">>) >>
                                        ELSE <<>>)
                         /\ done("Saved all")
           ELSE IF target # <<>>
           THEN IF ~DictHas(editors, target) THEN nothing("Error: not open")
                ELSE save(DictGet(editors, target), <<"save", target>>)
           ELSE IF active_editor = 0 THEN nothing("Error: no active file")
                ELSE save(active_editor, <<"save">>)

\* a method call that leaves every open editor object as it leaves its own
MethodOfAll(objects, editor, ed) ==
    [i \in DOMAIN objects |-> IF objects[i].cls = "collected" THEN objects[i] ELSE ed]

\* method(*args, **kwargs) of the object `editor`: the heap after the call
\* changed that object to ed
Method(objects, editor, ed) == [objects EXCEPT ![editor] = ed]

\* the operations execute_on_active is called with, and their arguments
WsOperations == {"append", "delete", "edit_text", "clear_modified", "zz"}
WsCommand(operation) ==
    IF operation = "append" THEN TextCmd("append", 0, 0, 0, <<"h", "i">>)
    ELSE IF operation = "delete" THEN TextCmd("delete", 1, 1, 0, <<>>)
    ELSE EditTextCommand("root", <<"U">>)

\* exploration bounds for the editors of a Workspace
WsWithinBounds(ed) ==
    /\ Len(ed.undo_stack) + Len(ed.redo_stack) <= MaxWsStack
    /\ Len(ed.nodes) <= MaxNodes
    /\ Len(ed.content) <= MaxLines

\* the missing active editor reported as a returned message
get_active_editor_message(active) ==
    IF active = 0 THEN "Error: no active file" ELSE "ok"

\* Workspace.get_active_editor(): the exception it raises, "ok" when it returns
\* the active editor
get_active_editor(active) ==
    IF active = 0 THEN "NoActiveEditorException" ELSE "ok"

\* getattr(editor, operation)(*args) on the object ed: the exception raised and
\* the object as the call left it
CallMember(ed, operation) ==
    IF operation \in TextKinds \cup XmlKinds THEN EditorExecuteCommand(ed, WsCommand(operation))
    ELSE IF operation = "mark_modified" THEN [err |-> "ok", ed |-> [ed EXCEPT !.modified = TRUE]]
    ELSE IF operation = "clear_modified" THEN [err |-> "ok", ed |-> [ed EXCEPT !.modified = FALSE]]
    ELSE [err |-> "ok", ed |-> ed]

\* Workspace.execute_on_active(operation, *args)
execute_on_active == \E operation \in WsOperations :
    LET done(res) == last' = [op |-> "execute_on_active", arg |-> operation, res |-> res,
                              pre |-> WsSnap, chain |-> <<>>]
        editor == active_editor
    IN  /\ UNCHANGED <<editor_vars, last_saved, files, editors, active_editor>>
        /\ notify_each(<<>>)
        /\ IF get_active_editor(active_editor) # "ok"
           THEN UNCHANGED editor_objects /\ done(get_active_editor(active_editor))
           ELSE IF ~HasOperation(editor_objects[editor], operation)
           THEN UNCHANGED editor_objects /\ done("AttributeError")
           ELSE LET r == CallMember(editor_objects[editor], operation)
                IN  /\ WsWithinBounds(r.ed)
                    /\ editor_objects' = Method(editor_objects, editor, r.ed)
                    /\ done(r.err)

\* the first registered editor, whichever one is active
FirstRegistered(active, registry) ==
    IF registry = <<>> THEN 0 ELSE registry[1][2]

\* self.active_editor, the editor Workspace.undo and Workspace.redo act on
ActiveEditor(active, registry) == active

\* Workspace.undo(); the history keeps the target of a save_file that was the
\* call before it
workspace_undo ==
    LET editor == ActiveEditor(active_editor, editors)
    IN  /\ UNCHANGED <<editor_vars, last_saved, files, editors, active_editor>>
        /\ notify_each(<<>>)
        /\ IF editor = 0
           THEN /\ UNCHANGED editor_objects
                /\ last' = [op |-> "undo", arg |-> <<>>, res |-> "Error: no active file",
                            pre |-> WsSnap, chain |-> <<>>]
           ELSE LET r == EditorUndo(editor_objects[editor])
                IN  /\ WsWithinBounds(r.ed)
                    /\ editor_objects' = [editor_objects EXCEPT ![editor] = r.ed]
                    /\ last' = [op |-> "undo", arg |-> <<>>, res |-> r.err,
                                pre |-> WsSnap,
                                chain |-> IF last.op = "save_file" THEN <<last.arg>>
                                          ELSE <<>>]

\* Workspace.redo()
workspace_redo ==
    LET editor == ActiveEditor(active_editor, editors)
    IN  /\ UNCHANGED <<editor_vars, last_saved, files, editors, active_editor>>
        /\ notify_each(<<>>)
        /\ IF editor = 0
           THEN /\ UNCHANGED editor_objects
                /\ last' = [op |-> "redo", arg |-> <<>>, res |-> "Error: no active file",
                            pre |-> WsSnap, chain |-> <<>>]
           ELSE LET r == EditorRedo(editor_objects[editor])
                IN  /\ WsWithinBounds(r.ed)
                    /\ editor_objects' = [editor_objects EXCEPT ![editor] = r.ed]
                    /\ last' = [op |-> "redo", arg |-> <<>>, res |-> r.err,
                                pre |-> WsSnap, chain |-> <<>>]

\* a Workspace after Workspace.__init__, with the files of FileSystem on disk
InitWs ==
    /\ content = <<>>
    /\ modified = FALSE
    /\ undo_stack = <<>>
    /\ redo_stack = <<>>
    /\ root = 0
    /\ nodes = <<>>
    /\ id_map = <<>>
    /\ call = NoCmd
    /\ last = InitHistory
    /\ editor_objects = <<>>
    /\ editors = <<>>
    /\ active_editor = 0
    /\ files = FileSystem
    /\ notified = <<>>
    /\ active_file = <<>>
    /\ last_saved = <<>>

NextWs ==
    \/ load_file \/ edit_file \/ close_file
    \/ execute_on_active \/ workspace_undo \/ workspace_redo

SpecWs == InitWs /\ [][NextWs]_vars

\* the pairs of paths of the runs with save_file: the path loaded first and the
\* path loaded second
SavePairs == { <<PathText, PathXml>>, <<PathXml, PathTextNew>>, <<PathXmlNew, PathText>> }

\* a Workspace after load_file of the two paths of a pair of SavePairs
InitSave ==
    /\ content = <<>>
    /\ modified = FALSE
    /\ undo_stack = <<>>
    /\ redo_stack = <<>>
    /\ root = 0
    /\ nodes = <<>>
    /\ id_map = <<>>
    /\ call = NoCmd
    /\ last = InitHistory
    /\ \E pair \in SavePairs :
           /\ editor_objects = << CreateAndLoad(FileSystem, pair[1]).ed,
                                  CreateAndLoad(FileSystem, pair[2]).ed >>
           /\ editors = << <<pair[1], 1>>, <<pair[2], 2>> >>
    /\ active_editor = 2
    /\ files = FileSystem
    /\ notified = <<>>
    /\ active_file = IF editor_objects[2].cls = "XMLEditor"
                     THEN editor_objects[2].filepath ELSE editor_objects[1].filepath
    /\ last_saved = << EditorModel(editor_objects[1]), EditorModel(editor_objects[2]) >>

NextSave ==
    \/ save_file \/ edit_file \/ close_file
    \/ execute_on_active \/ workspace_undo \/ workspace_redo

SpecSave == InitSave /\ [][NextSave]_vars

\* ------------------------------------------------------ Workspace.init_file
\* Workspace.init_file(filepath, file_type, with_log): with_log calls
\* self.logger.enable_logging(filepath, set()) before the editor is registered,
\* and Logger.enable_logging takes the path only; the paths tried are one of a
\* file on disk and one of no file
InitPaths == {PathText, PathXmlNew}

\* an init_file that sets the active pointer without registering the editor
NotRegistered(registry, filepath, editor) == registry

\* self.editors[filepath] = editor
Registered(registry, filepath, editor) == DictSet(registry, filepath, editor)

init_file == \E filepath \in InitPaths, file_type \in {"text", "xml"}, with_log \in BOOLEAN :
    LET editor == Len(editor_objects) + 1
        created == IF file_type = "xml"
                   THEN [XMLEditorNew(filepath) EXCEPT
                             !.root = DefaultTree.root, !.nodes = DefaultTree.nodes,
                             !.id_map = DefaultTree.id_map, !.modified = TRUE]
                   ELSE TextEditorNew(filepath)
        done(res) == last' = [op |-> "init_file", arg |-> <<filepath, file_type, with_log>>,
                              res |-> res, pre |-> WsSnap, chain |-> <<>>]
    IN  /\ UNCHANGED <<editor_vars, files>>
        /\ IF DictHas(editors, filepath)
           THEN /\ UNCHANGED <<editor_objects, editors, active_editor>>
                /\ notify_each(<<>>)
                /\ done("Error: already open")
           ELSE /\ Len(editors) < MaxEditors
                /\ Len(editor_objects) < MaxObjects
                /\ IF with_log
                   THEN /\ UNCHANGED <<editor_objects, editors, active_editor>>
                        /\ notify_each(<<>>)
                        /\ done(enable_logging_with_excludes)
                   ELSE /\ editor_objects' = Append(editor_objects, created)
                        /\ editors' = Registered(editors, filepath, editor)
                        /\ active_editor' = editor
                        /\ notify_each(<< FileActivated(filepath) >>)
                        /\ done("new buffer")
        /\ last_saved' = IF Len(editor_objects') > Len(editor_objects)
                    THEN Append(last_saved, EditorModel(created)) ELSE last_saved

\* the workspace with its five file operations
NextReg == load_file \/ init_file \/ edit_file \/ close_file \/ save_file

SpecReg == InitWs /\ [][NextReg]_vars

\* ------------------------------------------- save, close and load one document
\* a text with a character XML reserves
MarkupText == <<"a", "&", "b">>

\* the calls of the runs that save and load: XmlCalls and an edit_text with a
\* reserved character
ReloadXmlCalls ==
    XmlCalls \cup { EditTextCommand(element_id, MarkupText) : element_id \in CallIds }

\* the document of the run as the editor object the workspace holds for the path
StandAlone(filepath) ==
    LET created == IF root = 0 THEN TextEditorNew(filepath) ELSE XMLEditorNew(filepath)
    IN  [WithModel(created, Model) EXCEPT !.modified = modified,
                                         !.undo_stack = undo_stack,
                                         !.redo_stack = redo_stack]

\* Workspace.save_file() of the only open document, Workspace.close_file() of it
\* and Workspace.load_file(filepath) of the path it was saved under: what
\* save_to_file wrote is what load_from_file of the new editor reads; the result
\* is the exception of load_from_file ("ok" for none), after which no document
\* is open
save_close_load ==
    LET filepath == IF root = 0 THEN PathTextNew ELSE PathXmlNew
        written == SavedFile(StandAlone(filepath))
        r == CreateAndLoad(<< <<filepath, written>> >>, filepath)
    IN  /\ last.op # "save_close_load"
        /\ IF r.err = "ok"
           THEN /\ content' = r.ed.content
                /\ root' = r.ed.root
                /\ nodes' = r.ed.nodes
                /\ id_map' = r.ed.id_map
                /\ modified' = r.ed.modified
           ELSE /\ content' = <<>>
                /\ root' = 0
                /\ nodes' = <<>>
                /\ id_map' = <<>>
                /\ modified' = FALSE
        /\ undo_stack' = <<>>
        /\ redo_stack' = <<>>
        /\ call' = call
        /\ last' = [op |-> "save_close_load", res |-> r.err, pre |-> Snap, chain |-> <<>>]
        /\ UNCHANGED ws_vars

InitReload ==
    /\ \/ /\ content \in CallDocs /\ root = 0 /\ nodes = <<>> /\ id_map = <<>>
          /\ call \in TextCalls
       \/ /\ content = <<>>
          /\ \E d \in XmlDocs : root = d.root /\ nodes = d.nodes /\ id_map = d.id_map
          /\ call \in ReloadXmlCalls
    /\ modified = FALSE
    /\ undo_stack = <<>>
    /\ redo_stack = <<>>
    /\ last = InitHistory
    /\ NoWorkspace

NextReload == text_call \/ xml_call \/ save_close_load

SpecReload == InitReload /\ [][NextReload]_vars

\* ================================================================== claims
\* the error classes of the specification, as the exception classes of
\* utils/exceptions.py
PositionError == {"LineOutOfRangeException", "ColumnOutOfRangeException"}
LengthError == {"DeleteLengthExceedsLineException"}
EmptyDocumentError == {"EmptyFileInsertException"}

\* the last call was undo(), it undid a command, and the call before it was the
\* successful execute of that command
UndoRightAfterExecute == last.op = "undo" /\ last.res = "ok" /\ Len(last.chain) = 1

\* the last call was redo(), it redid a command, and the call before it was the
\* undo() of that command
RedoRightAfterUndo == last.op = "redo" /\ last.res = "ok" /\ Len(last.chain) >= 1

\* the objects reachable from the objects `todo` through children
RECURSIVE ReachFrom(_, _, _)
ReachFrom(ns, todo, seen) ==
    IF todo = {} THEN seen
    ELSE LET o == CHOOSE x \in todo : TRUE
             kids == { ns[o].children[i] : i \in 1 .. Len(ns[o].children) }
         IN  ReachFrom(ns, (todo \cup kids) \ (seen \cup {o}), seen \cup {o})

\* the nodes of the tree of the document t
TreeNodes(t) == ReachFrom(t.nodes, {t.root}, {})

\* the objects the id-index of t refers to
Indexed(t) == { t.id_map[i][2] : i \in 1 .. Len(t.id_map) }

\* the trees of t and u are the same objects in the same state: same root, the
\* same nodes with the same tag, id, text, attribute map, ordered children and
\* parent, and an id-index with the same keys mapped to the same nodes
SameTree(t, u) ==
    /\ t.root = u.root
    /\ DictItems(t.id_map) = DictItems(u.id_map)
    /\ Len(t.id_map) = Len(u.id_map)
    /\ TreeNodes(t) = TreeNodes(u)
    /\ \A o \in TreeNodes(t) \cup Indexed(t) :
           /\ t.nodes[o].tag = u.nodes[o].tag
           /\ t.nodes[o].id = u.nodes[o].id
           /\ t.nodes[o].text = u.nodes[o].text
           /\ DictItems(t.nodes[o].attributes) = DictItems(u.nodes[o].attributes)
           /\ Len(t.nodes[o].attributes) = Len(u.nodes[o].attributes)
           /\ t.nodes[o].children = u.nodes[o].children
           /\ t.nodes[o].parent = u.nodes[o].parent

\* the value of the subtree at object o: tag, id, text, attribute map and the
\* values of the children in order
RECURSIVE NodeValue(_, _)
NodeValue(ns, o) ==
    [text |-> ns[o].text, tag |-> ns[o].tag, id |-> ns[o].id,
     attributes |-> DictItems(ns[o].attributes),
     children |-> [i \in 1 .. Len(ns[o].children) |-> NodeValue(ns, ns[o].children[i])]]

\* the value of the tree of t and of its id-index
TreeValue(t) ==
    <<NodeValue(t.nodes, t.root),
      { <<t.id_map[i][1], NodeValue(t.nodes, t.id_map[i][2])>> : i \in 1 .. Len(t.id_map) }>>

\* C1: for a text document and any append, insert, delete or replace whose
\* execute succeeds (an insert into an empty document and any integer length
\* included), an immediately following undo() leaves the line sequence equal to
\* the line sequence immediately before that execute.
C1_UndoRestoresLines ==
    (UndoRightAfterExecute /\ root = 0)
        => content = last.chain[1].content

\* C2: for a tree document and any of the eight tree operations whose execute
\* succeeds, an immediately following undo() leaves the tree equal to the tree
\* immediately before that execute: same root, every node with the same tag, id,
\* text, attribute map, ordered children and parent, and the same id-index.
C2_UndoRestoresTree ==
    (UndoRightAfterExecute /\ root # 0)
        => SameTree(Model, last.chain[1])

\* the deletion of the first of two siblings has been undone: it is the first
\* child of the root again
C2_Witness ==
    /\ UndoRightAfterExecute
    /\ call.kind = "delete_element"
    /\ call.element_id = "b1"
    /\ Len(nodes[root].children) = 2
    /\ nodes[root].children[1] = DictGet(id_map, "b1")
    /\ modified

\* C3: for either document kind, undo() immediately followed by redo() leaves
\* the document model (the lines, or the tree with its id-index compared by
\* value) equal to the model before the undo.
C3_RedoRestoresModel ==
    RedoRightAfterUndo =>
        /\ content = last.chain[1].content
        /\ root # 0 => TreeValue(Model) = TreeValue(last.chain[1])

\* C4: a successful execute puts its command on top of undo_stack and empties
\* redo_stack; undo moves the top command of undo_stack to the top of
\* redo_stack; redo moves the top command of redo_stack back to the top of
\* undo_stack.
CapturedFields == {"line_number", "old_lines", "affected_line_count", "deleted_text",
                   "old_text", "parent", "new_element", "insert_index", "element",
                   "index", "deleted_ids", "old_value", "old_root", "old_id_map"}

\* what a command object was constructed with: its kind and its arguments
Constructed(cmd) == [f \in (DOMAIN cmd) \ CapturedFields |-> cmd[f]]

C4_StackDiscipline ==
    LET us0 == last.pre.undo_stack
        rs0 == last.pre.redo_stack
    IN  /\ (last.op \in ExecOps /\ last.res = "ok") =>
               /\ Len(undo_stack) = Len(us0) + 1
               /\ StackRest(undo_stack) = us0
               /\ StackTop(undo_stack).kind = last.op
               /\ redo_stack = <<>>
        /\ (last.op = "undo" /\ us0 # <<>>) =>
               /\ undo_stack = SubSeq(us0, 1, Len(us0) - 1)
               /\ redo_stack = Append(rs0, us0[Len(us0)])
        /\ (last.op = "redo" /\ rs0 # <<>>) =>
               /\ redo_stack = SubSeq(rs0, 1, Len(rs0) - 1)
               /\ Len(undo_stack) = Len(us0) + 1
               /\ SubSeq(undo_stack, 1, Len(us0)) = us0
               /\ Constructed(undo_stack[Len(undo_stack)]) = Constructed(rs0[Len(rs0)])

\* two different commands were executed and both undone, and the one executed
\* first has just been redone: it is on undo_stack, the other still on redo_stack
C4_Witness ==
    /\ last.op = "redo" /\ last.res = "ok"
    /\ Len(last.pre.redo_stack) = 2
    /\ Len(undo_stack) = 1 /\ Len(redo_stack) = 1
    /\ Constructed(undo_stack[1]) # Constructed(redo_stack[1])

\* C5: if the execute of any of the twelve operations raises an error, the
\* document's content (lines, or tree and id-index), its modified flag, its
\* undo_stack and its redo_stack are exactly as before the call; a failed
\* execute issued after an undo does not clear the redo stack.
C5_FailedExecuteChangesNothing ==
    (last.op \in ExecOps /\ last.res # "ok") => Snap = last.pre

\* an operation has failed right after an undo, with the undone command still on
\* the redo stack
C5_Witness ==
    /\ last.op \in ExecOps /\ last.res # "ok"
    /\ redo_stack # <<>>
    /\ undo_stack # <<>>

\* C6: in every state of a tree document, no two nodes reachable from the root
\* have the same id, the key set of the id-index equals the set of ids of the
\* nodes reachable from the root, and each key maps to the node that carries
\* that id.
C6_IdIndexMatchesTree ==
    root # 0 =>
        /\ \A o1, o2 \in TreeNodes(Model) : nodes[o1].id = nodes[o2].id => o1 = o2
        /\ DictKeys(id_map) = { nodes[o].id : o \in TreeNodes(Model) }
        /\ Len(id_map) = Cardinality(DictKeys(id_map))
        /\ \A i \in 1 .. Len(id_map) :
               /\ id_map[i][2] \in TreeNodes(Model)
               /\ nodes[id_map[i][2]].id = id_map[i][1]

\* the deletion of an element together with its child has been undone and redone
C6_Witness ==
    /\ last.op = "redo" /\ last.res = "ok"
    /\ undo_stack # <<>>
    /\ StackTop(undo_stack).kind = "delete_element"
    /\ Len(StackTop(undo_stack).deleted_ids) = 2
    /\ ~DictHas(id_map, "c1")

\* C7: insert(line, col, text) succeeds exactly when the document is empty and
\* line = 1 and col = 1, or the document is non-empty and 1 <= line <= lineCount
\* and 1 <= col <= len(line)+1, measured on the document at execute time;
\* col = len(line)+2 and a line outside 1..lineCount fail with PositionError, and
\* any position other than 1:1 on an empty document fails with EmptyDocumentError.
C7_InsertPrecondition ==
    (last.op = "insert" /\ call.kind = "insert") =>
        LET c == last.pre.content
            lineOk == call.line >= 1 /\ call.line <= Len(c)
        IN  /\ (last.res = "ok") <=>
                   \/ c = <<>> /\ call.line = 1 /\ call.col = 1
                   \/ c # <<>> /\ lineOk /\ call.col >= 1
                        /\ call.col <= Len(c[call.line]) + 1
            /\ (c # <<>> /\ lineOk /\ call.col = Len(c[call.line]) + 2)
                   => last.res \in PositionError
            /\ (c # <<>> /\ ~lineOk) => last.res \in PositionError
            /\ (c = <<>> /\ (call.line # 1 \/ call.col # 1))
                   => last.res \in EmptyDocumentError

\* an insert at the end of a non-empty line (col = len(line)+1) has succeeded
C7_Witness ==
    /\ last.op = "insert" /\ call.kind = "insert" /\ last.res = "ok"
    /\ last.pre.content # <<>>
    /\ call.col = Len(last.pre.content[call.line]) + 1
    /\ call.col > 1

\* C8: delete and replace with a valid line and 1 <= col <= len(line) fail with
\* LengthError whenever length exceeds the characters remaining from col to the
\* end of the line, and the failed call leaves every line, the stacks and the
\* modified flag unchanged.
C8_LengthError ==
    (last.op \in {"delete", "replace"} /\ call.kind = last.op) =>
        LET c == last.pre.content
        IN  (/\ call.line >= 1 /\ call.line <= Len(c)
             /\ call.col >= 1 /\ call.col <= Len(c[call.line])
             /\ call.length > Len(c[call.line]) - call.col + 1)
            => (last.res \in LengthError /\ Snap = last.pre)

\* a delete whose length is one more than what remains of the line was rejected
C8_Witness ==
    /\ last.op = "delete" /\ call.kind = "delete"
    /\ call.line = 1 /\ Len(last.pre.content) >= 1
    /\ call.col >= 1 /\ call.col <= Len(last.pre.content[1])
    /\ call.length = Len(last.pre.content[1]) - call.col + 2
    /\ last.res \in LengthError

\* C9 as stated: delete(1, 3, 10) on a document whose line 1 is 'hi' is rejected
\* with LengthError and line 1 remains 'hi'; a delete whose col is len(line)+1
\* and whose length is positive is reported as LengthError and changes nothing.
C9_ColumnPastEndIsLengthError ==
    (last.op = "delete" /\ call.kind = "delete") =>
        LET c == last.pre.content
        IN  (/\ call.line >= 1 /\ call.line <= Len(c)
             /\ call.col = Len(c[call.line]) + 1
             /\ call.length > 0)
            => (last.res \in LengthError /\ Snap = last.pre)

\* C9 amended: such a delete is rejected with PositionError (the column check
\* comes before the length check, and a column of len(line)+1 is out of range
\* for delete), and it changes nothing.
C9_ColumnPastEndIsPositionError ==
    (last.op = "delete" /\ call.kind = "delete") =>
        LET c == last.pre.content
        IN  (/\ call.line >= 1 /\ call.line <= Len(c)
             /\ call.col = Len(c[call.line]) + 1
             /\ call.length > 0)
            => (last.res = "ColumnOutOfRangeException" /\ Snap = last.pre)

\* delete(1, 3, 10) was called on a document whose line 1 is 'hi'
C9_Witness ==
    /\ last.op = "delete" /\ call.kind = "delete"
    /\ call.line = 1 /\ call.col = 3 /\ call.length = 10
    /\ Len(last.pre.content) >= 1 /\ last.pre.content[1] = <<"h", "i">>
    /\ content[1] = <<"h", "i">>

\* the result the specification gives for insert(line, col, text) on the lines c
\* whose target line is L: the fragments of text placed around the cut of L
InsertResult(c, L, line, col, text) ==
    LET f == Split(text)
        k == Len(f)
        before == SubSeq(c, 1, line - 1)
        after == SubSeq(c, line + 1, Len(c))
        head == SubSeq(L, 1, col - 1)
        tail == SubSeq(L, col, Len(L))
    IN  IF k = 1 THEN before \o << head \o text \o tail >> \o after
        ELSE before \o << head \o f[1] >> \o SubSeq(f, 2, k - 1)
                    \o << f[k] \o tail >> \o after

\* C10 as stated: a successful insert(line, col, text) whose text has the
\* fragments f1..fk turns the target line L into L[:col-1] + text + L[col-1:] with
\* the line count unchanged if k = 1, and otherwise into L[:col-1] + f1, then
\* f2 .. f(k-1), then fk + L[col-1:], with the line count grown by exactly k-1;
\* every other line keeps its content and order.
C10_InsertResult ==
    (last.op = "insert" /\ call.kind = "insert" /\ last.res = "ok") =>
        LET c == last.pre.content
            L == IF call.line <= Len(c) THEN c[call.line] ELSE <<>>
        IN  /\ content = InsertResult(c, L, call.line, call.col, call.text)
            /\ Len(content) = Len(c) + Len(Split(call.text)) - 1

\* C10 amended: the above holds for an insert into a non-empty document; an
\* insert at 1:1 into an empty document gives the result of the same insert into
\* a document of one empty line, so that the line count grows from 0 to k.
C10_InsertResultNonEmpty ==
    (last.op = "insert" /\ call.kind = "insert" /\ last.res = "ok") =>
        LET c == last.pre.content
            k == Len(Split(call.text))
        IN  IF c # <<>>
            THEN /\ content = InsertResult(c, c[call.line], call.line, call.col, call.text)
                 /\ Len(content) = Len(c) + k - 1
            ELSE /\ content = InsertResult(<< <<>> >>, <<>>, 1, 1, call.text)
                 /\ Len(content) = k

\* a text of three fragments has been inserted inside the first of two lines
C10_Witness ==
    /\ last.op = "insert" /\ call.kind = "insert" /\ last.res = "ok"
    /\ Len(Split(call.text)) = 3
    /\ Len(last.pre.content) = 2
    /\ call.line = 1 /\ call.col = 2
    /\ Len(content) = 4


\* the call of Scenario A: insert(1, 1, 'a\nb\nc')
ScenarioACall == TextCmd("insert", 1, 1, 0, <<"a", NL, "b", NL, "c">>)

\* C11: on an empty text document (zero lines), insert(1,1,'a\nb\nc') makes the
\* document ['a','b','c'], and the following undo() leaves the document as the
\* single empty line [''].
C11_ScenarioA ==
    /\ (last.op = "insert" /\ call = ScenarioACall /\ last.pre.content = <<>>) =>
           /\ last.res = "ok"
           /\ content = << <<"a">>, <<"b">>, <<"c">> >>
    /\ (UndoRightAfterExecute /\ call = ScenarioACall /\ last.chain[1].content = <<>>) =>
           content = << <<>> >>

\* insert(1,1,'a\nb\nc') on an empty document has been undone
C11_Witness ==
    /\ UndoRightAfterExecute
    /\ call = ScenarioACall
    /\ last.chain[1].content = <<>>
    /\ last.pre.content = << <<"a">>, <<"b">>, <<"c">> >>
    /\ root = 0


\* the lines of c with line `line` (1-based) replaced by new_line
WithLine(c, line, new_line) == [i \in 1 .. Len(c) |-> IF i = line THEN new_line ELSE c[i]]

\* C12: a successful delete(line, col, length) changes only line `line`, to
\* L[:col-1] + L[col-1+length:], so that the line becomes exactly `length`
\* characters shorter; a successful replace(line, col, length, text) changes only
\* that line, to L[:col-1] + text + L[col-1+length:]; for every length that the
\* validation accepts.
C12_DeleteReplaceResult ==
    /\ (last.op = "delete" /\ call.kind = "delete" /\ last.res = "ok") =>
           LET c == last.pre.content
               L == c[call.line]
           IN  /\ content = WithLine(c, call.line,
                                PyTo(L, call.col - 1) \o PyFrom(L, call.col - 1 + call.length))
               /\ Len(content[call.line]) = Len(L) - call.length
    /\ (last.op = "replace" /\ call.kind = "replace" /\ last.res = "ok") =>
           LET c == last.pre.content
               L == c[call.line]
           IN  content = WithLine(c, call.line,
                             PyTo(L, call.col - 1) \o call.text
                                 \o PyFrom(L, call.col - 1 + call.length))


\* the root node of the document before the last operation
PreRoot == last.pre.nodes[last.pre.root]

\* C13: append_root succeeds only when the current root has tag 'root', id 'root'
\* and no children. With at least one child it is rejected with the 'has
\* children' error; a childless root that is not the default is rejected with the
\* distinct 'customized' error; in both rejections the root, the id-index and both
\* stacks (the whole document) are as before.
C13_ReplaceRootPrecondition ==
    (last.op = "append_root" /\ call.kind = "append_root") =>
        /\ last.res = "ok" =>
               /\ PreRoot.tag = "root"
               /\ PreRoot.id = "root"
               /\ PreRoot.children = <<>>
        /\ PreRoot.children # <<>> =>
               /\ last.res = "EditorException: root has children"
               /\ Snap = last.pre
        /\ (PreRoot.children = <<>> /\ ~(PreRoot.tag = "root" /\ PreRoot.id = "root")) =>
               /\ last.res = "EditorException: root customized"
               /\ Snap = last.pre

\* append_root has been rejected on a childless root whose tag alone is customised
C13_Witness ==
    /\ last.op = "append_root"
    /\ call.kind = "append_root"
    /\ PreRoot.tag = "lib"
    /\ PreRoot.id = "root"
    /\ PreRoot.children = <<>>
    /\ last.res = "EditorException: root customized"


\* C14: after a successful append_root(tag, new_id, text, attributes) the root is
\* a new node with that tag, id and attributes, and the id-index has exactly one
\* entry, new_id (so 'root' is in it only if new_id is 'root'); undo restores the
\* previous root and the previous id-index; a following redo makes the root's tag
\* and id those of the replacement again.
C14_ReplaceRootEffect ==
    /\ (last.op = "append_root" /\ call.kind = "append_root" /\ last.res = "ok") =>
           /\ root \notin 1 .. Len(last.pre.nodes)
           /\ root \notin TreeNodes(last.pre) \cup Indexed(last.pre)
           /\ nodes[root].tag = call.tag
           /\ nodes[root].id = call.new_id
           /\ DictItems(nodes[root].attributes)
                  = { <<"id", call.new_id>> }
                        \cup { a \in DictItems(call.attributes) : a[1] # "id" }
           /\ id_map = << <<call.new_id, root>> >>
           /\ DictHas(id_map, "root") <=> call.new_id = "root"
    /\ (UndoRightAfterExecute /\ call.kind = "append_root") =>
           /\ root = last.chain[1].root
           /\ DictItems(id_map) = DictItems(last.chain[1].id_map)
           /\ Len(id_map) = Len(last.chain[1].id_map)
           /\ nodes[root] = last.chain[1].nodes[root]
    /\ (RedoRightAfterUndo /\ call.kind = "append_root") =>
           /\ nodes[root].tag = call.tag
           /\ nodes[root].id = call.new_id
           /\ DictKeys(id_map) = {call.new_id}

\* the default root has been replaced by <lib id="root" k="w">, the replacement
\* undone and redone
C14_Witness ==
    /\ RedoRightAfterUndo
    /\ call.kind = "append_root"
    /\ call.tag = "lib"
    /\ call.new_id = "root"
    /\ call.attributes # <<>>
    /\ nodes[root].tag = "lib"
    /\ DictItems(nodes[root].attributes) = { <<"id", "root">>, <<"k", "w">> }
    /\ last.pre.nodes[last.pre.root].tag = "root"


\* the ids of the node o and of all its descendants
SubtreeIds(ns, o) == { ns[x].id : x \in ReachFrom(ns, {o}, {}) }

\* C15: delete_element(id) succeeds only if id is in the id-index and is not the
\* root. On success exactly the ids of that node and of all its descendants are
\* removed from the id-index and the node is detached from its parent, with every
\* other node unchanged. undo re-inserts the same subtree under its original
\* parent at its original sibling index and puts every removed id back in the
\* index, with text and attributes of every restored node as before.
C15_DeleteSubtree ==
    /\ (last.op = "delete_element" /\ call.kind = "delete_element") =>
           LET pre == last.pre
               e == get_element(pre, call.element_id)
           IN  /\ e = 0 => /\ last.res = "EditorException: element missing"
                           /\ Snap = pre
               /\ e = pre.root => /\ last.res = "EditorException: delete root"
                                  /\ Snap = pre
               /\ last.res = "ok" =>
                      LET p == pre.nodes[e].parent
                          gone == SubtreeIds(pre.nodes, e)
                      IN  /\ e # 0 /\ e # pre.root
                          /\ gone \subseteq DictKeys(pre.id_map)
                          /\ call.element_id \in gone
                          /\ id_map = SelectSeq(pre.id_map, LAMBDA item : item[1] \notin gone)
                          /\ nodes[e].parent = 0
                          /\ nodes[p].children
                                 = SelectSeq(pre.nodes[p].children, LAMBDA x : x # e)
                          /\ Len(nodes[p].children) = Len(pre.nodes[p].children) - 1
                          /\ nodes[e] = [pre.nodes[e] EXCEPT !.parent = 0]
                          /\ nodes[p] = [pre.nodes[p] EXCEPT !.children = nodes[p].children]
                          /\ DOMAIN nodes = DOMAIN pre.nodes
                          /\ \A o \in DOMAIN nodes : o \notin {e, p} => nodes[o] = pre.nodes[o]
                          /\ root = pre.root
    /\ (UndoRightAfterExecute /\ call.kind = "delete_element") =>
           LET before == last.chain[1]
               e == get_element(before, call.element_id)
               p == before.nodes[e].parent
           IN  /\ SameTree(Model, before)
               /\ get_element(Model, call.element_id) = e
               /\ nodes[e].parent = p
               /\ IndexOf(nodes[p].children, e) = IndexOf(before.nodes[p].children, e)
               /\ \A o \in ReachFrom(before.nodes, {e}, {}) :
                      /\ nodes[o] = before.nodes[o]
                      /\ get_element(Model, nodes[o].id) = o

\* the subtree of b1 (with its child c1 and the text T) has been deleted, which
\* left only the root in the index, and the deletion has been undone
C15_Witness ==
    /\ UndoRightAfterExecute
    /\ call.kind = "delete_element"
    /\ call.element_id = "b1"
    /\ DictKeys(last.pre.id_map) = {"root"}
    /\ DictKeys(id_map) = {"root", "b1", "c1"}
    /\ nodes[get_element(Model, "b1")].text = <<"T">>
    /\ nodes[get_element(Model, "c1")].parent = get_element(Model, "b1")


\* C16: edit_id(old_id, new_id) succeeds only if old_id is in the id-index and
\* new_id is not (so edit_id(x, x) is rejected). On success the same node is
\* reachable under new_id, old_id is no longer in the index, the node's id and its
\* 'id' attribute both equal new_id, and nothing else in the tree changes
\* (position, children, text, other attributes); undo makes the node reachable
\* under old_id again and removes new_id from the index.
C16_EditId ==
    /\ (last.op = "edit_id" /\ call.kind = "edit_id") =>
           LET pre == last.pre
               e == get_element(pre, call.old_id)
           IN  /\ last.res = "ok" <=>
                      (DictHas(pre.id_map, call.old_id) /\ ~DictHas(pre.id_map, call.new_id))
               /\ last.res # "ok" => Snap = pre
               /\ last.res = "ok" =>
                      /\ call.old_id # call.new_id
                      /\ get_element(Model, call.new_id) = e
                      /\ ~DictHas(id_map, call.old_id)
                      /\ nodes[e].id = call.new_id
                      /\ DictGet(nodes[e].attributes, "id") = call.new_id
                      /\ nodes[e] = [pre.nodes[e] EXCEPT
                                         !.id = call.new_id,
                                         !.attributes = DictSet(@, "id", call.new_id)]
                      /\ DOMAIN nodes = DOMAIN pre.nodes
                      /\ \A o \in DOMAIN nodes : o # e => nodes[o] = pre.nodes[o]
                      /\ root = pre.root
                      /\ DictItems(id_map) \ { <<call.new_id, e>> }
                             = DictItems(pre.id_map) \ { <<call.old_id, e>> }
                      /\ Len(id_map) = Len(pre.id_map)
    /\ (UndoRightAfterExecute /\ call.kind = "edit_id") =>
           LET e == get_element(last.chain[1], call.old_id)
           IN  /\ get_element(Model, call.old_id) = e
               /\ ~DictHas(id_map, call.new_id)
               /\ nodes[e].id = call.old_id
               /\ DictGet(nodes[e].attributes, "id") = call.old_id

\* b1, which has a child, a text and another attribute, has been renamed to d1
\* and the renaming has been undone
C16_Witness ==
    /\ UndoRightAfterExecute
    /\ call.kind = "edit_id"
    /\ call.old_id = "b1"
    /\ call.new_id = "d1"
    /\ DictHas(last.pre.id_map, "d1")
    /\ ~DictHas(last.pre.id_map, "b1")
    /\ DictHas(id_map, "b1")
    /\ nodes[get_element(Model, "b1")].children # <<>>
    /\ DictHas(nodes[get_element(Model, "b1")].attributes, "k")

\* edit_id(b1, b1) on a tree that has b1 has been rejected
C16_SameIdRejected ==
    /\ last.op = "edit_id"
    /\ call.kind = "edit_id"
    /\ call.old_id = "b1"
    /\ call.new_id = "b1"
    /\ DictHas(last.pre.id_map, "b1")
    /\ last.res = "EditorException: target id exists"


\* C17: in every reachable state of a tree document every node's attribute map
\* has the key 'id' and its value is the node's id. set_attribute and
\* remove_attribute with the attribute name 'id' are always rejected with an
\* error and change nothing, and an 'id' entry in the attributes argument of
\* append_child, insert_before or append_root never overrides new_id.
C17_IdAttributeIsId ==
    /\ root # 0 =>
           \A o \in DOMAIN nodes :
               /\ DictHas(nodes[o].attributes, "id")
               /\ DictGet(nodes[o].attributes, "id") = nodes[o].id
    /\ (/\ last.op \in {"set_attribute", "remove_attribute"}
        /\ call.kind = last.op
        /\ call.attr_name = "id") =>
           /\ last.res \in {"EditorException: element missing", "EditorException: set id",
                            "EditorException: remove id"}
           /\ Snap = last.pre
    /\ (/\ last.op \in {"append_child", "insert_before", "append_root"}
        /\ call.kind = last.op
        /\ last.res = "ok") =>
           LET new == get_element(Model, call.new_id)
           IN  /\ new \notin DOMAIN last.pre.nodes
               /\ nodes[new].id = call.new_id
               /\ DictGet(nodes[new].attributes, "id") = call.new_id

\* append_child has created d1 with the attributes id="zz" and k="w" given: the
\* new node has id="d1" and k="w"
C17_Witness ==
    /\ last.op = "append_child"
    /\ call.kind = "append_child"
    /\ last.res = "ok"
    /\ call.new_id = "d1"
    /\ DictHas(call.attributes, "id")
    /\ DictGet(call.attributes, "id") = "zz"
    /\ DictItems(nodes[get_element(Model, "d1")].attributes)
           = { <<"id", "d1">>, <<"k", "w">> }

\* set_attribute(b1, 'id', ...) on a tree that has b1 has been rejected
C17_SetIdRejected ==
    /\ last.op = "set_attribute"
    /\ call.kind = "set_attribute"
    /\ call.attr_name = "id"
    /\ DictHas(last.pre.id_map, call.element_id)
    /\ last.res = "EditorException: set id"


\* C18: after a successful set_attribute(id, name, value) the node's attribute
\* `name` has the value `value`; the following undo gives the attribute its prior
\* value when it existed before (a prior empty string included) and removes it
\* when it did not exist before; a following redo sets `value` again.
C18_SetAttribute ==
    /\ (last.op = "set_attribute" /\ call.kind = "set_attribute" /\ last.res = "ok") =>
           LET e == get_element(last.pre, call.element_id)
           IN  /\ e # 0
               /\ DictHas(nodes[e].attributes, call.attr_name)
               /\ DictGet(nodes[e].attributes, call.attr_name) = call.attr_value
    /\ (UndoRightAfterExecute /\ call.kind = "set_attribute") =>
           LET e == get_element(last.chain[1], call.element_id)
               prior == last.chain[1].nodes[e].attributes
           IN  IF DictHas(prior, call.attr_name)
               THEN /\ DictHas(nodes[e].attributes, call.attr_name)
                    /\ DictGet(nodes[e].attributes, call.attr_name)
                           = DictGet(prior, call.attr_name)
               ELSE ~DictHas(nodes[e].attributes, call.attr_name)
    /\ (RedoRightAfterUndo /\ call.kind = "set_attribute") =>
           LET e == get_element(Model, call.element_id)
           IN  /\ DictHas(nodes[e].attributes, call.attr_name)
               /\ DictGet(nodes[e].attributes, call.attr_name) = call.attr_value

\* k = "" of b1 has been set to "w" and the undo has made it "" again
C18_Witness ==
    /\ UndoRightAfterExecute
    /\ call.kind = "set_attribute"
    /\ call.element_id = "b1"
    /\ call.attr_name = "k"
    /\ DictGet(last.pre.nodes[get_element(Model, "b1")].attributes, "k") = "w"
    /\ DictGet(nodes[get_element(Model, "b1")].attributes, "k") = ""

\* an attribute that b1 did not have has been set and the undo has removed it
C18_AbsentBefore ==
    /\ UndoRightAfterExecute
    /\ call.kind = "set_attribute"
    /\ call.element_id = "b1"
    /\ call.attr_name = "n"
    /\ DictHas(last.pre.nodes[get_element(Model, "b1")].attributes, "n")
    /\ ~DictHas(nodes[get_element(Model, "b1")].attributes, "n")


\* the last call was load_file of a path that was open / not open before it
LoadOfOpenPath == last.op = "load_file" /\ DictHas(last.pre.editors, last.arg)
LoadOfNewPath == last.op = "load_file" /\ ~DictHas(last.pre.editors, last.arg)

\* C19: load_file of a path that is already open creates no new document: the
\* registry is unchanged, the existing document keeps its content, modified flag
\* and undo/redo stacks, it becomes the active document, and a file_activated
\* event for that path (and no file_loaded event) is emitted.
C19_LoadOfOpenPath ==
    LoadOfOpenPath =>
        /\ editors = last.pre.editors
        /\ editor_objects = last.pre.editor_objects
        /\ active_editor = DictGet(last.pre.editors, last.arg)
        /\ editor_objects[active_editor].filepath = last.arg
        /\ notified = << FileActivated(last.arg) >>
        /\ \A i \in 1 .. Len(notified) : notified[i][1] # "file_loaded"
        /\ last.res = "already open"

\* with two documents open, load_file of the one that was not active, which has
\* been edited (modified, one command to undo), has made it the active one
C19_Witness ==
    /\ LoadOfOpenPath
    /\ Len(editors) = 2
    /\ last.pre.active_editor # active_editor
    /\ editor_objects[active_editor].modified
    /\ editor_objects[active_editor].undo_stack # <<>>
    /\ editor_objects[active_editor].content # <<>>

\* C20: load_file of a path that is not open, for a text as well as an XML path,
\* registers a new document under that path, makes it the active document, and
\* emits a file_loaded event carrying the path and the auto-enable flag followed
\* by a file_activated event for the path; when the file does not exist the new
\* document is empty and marked modified.  (Stated for the files that can be
\* read: those that do not exist and those that load_from_file accepts.)
C20_LoadOfNewPath ==
    (/\ LoadOfNewPath
     /\ DictHas(files, last.arg) /\ EndsWith(last.arg, <<".", "x", "m", "l">>)
            => DictGet(files, last.arg).well_formed) =>
        /\ DictHas(editors, last.arg)
        /\ DictItems(editors) = DictItems(last.pre.editors)
                                    \cup { <<last.arg, DictGet(editors, last.arg)>> }
        /\ DictGet(editors, last.arg) \notin DOMAIN last.pre.editor_objects
        /\ active_editor = DictGet(editors, last.arg)
        /\ \E auto_enable \in BOOLEAN :
               notified = << FileLoaded(last.arg, auto_enable), FileActivated(last.arg) >>
        /\ ~DictHas(files, last.arg) =>
               LET ed == editor_objects[active_editor]
               IN  /\ ed.modified
                   /\ ed.content = <<>>
                   /\ ed.cls = "XMLEditor" => ed.nodes[ed.root].children = <<>>


\* the editor object that close_file(filepath, force) with the arguments arg
\* resolves in the workspace w: the one registered under filepath, or the active
\* one when no filepath is given; 0 when there is none
CloseTarget(w, arg) ==
    IF arg[1] # <<>>
    THEN (IF DictHas(w.editors, arg[1]) THEN DictGet(w.editors, arg[1]) ELSE 0)
    ELSE w.active_editor

\* the events of the last call that have the type event_type
Notified(event_type) ==
    { i \in 1 .. Len(notified) : notified[i][1] = event_type }

\* C21: close_file(path, force) on a document whose modified flag is set and
\* with force false returns the save-prompt signal and changes nothing: the
\* document stays registered, the active pointer is unchanged, the document's
\* content and stacks are unchanged, and no file_closed or file_activated event
\* is emitted.
C21_CloseOfModifiedAsks ==
    (/\ last.op = "close_file"
     /\ CloseTarget(last.pre, last.arg) # 0
     /\ last.pre.editor_objects[CloseTarget(last.pre, last.arg)].modified
     /\ ~last.arg[2]) =>
        /\ last.res = "save prompt"
        /\ editors = last.pre.editors
        /\ active_editor = last.pre.active_editor
        /\ editor_objects = last.pre.editor_objects
        /\ Notified("file_closed") = {}
        /\ Notified("file_activated") = {}

\* with two documents open, close_file without force of the one that is not
\* active and has been edited has asked for the save prompt
C21_Witness ==
    /\ last.op = "close_file"
    /\ last.res = "save prompt"
    /\ last.arg[1] # <<>>
    /\ Len(editors) = 2
    /\ active_editor # DictGet(editors, last.arg[1])
    /\ editor_objects[DictGet(editors, last.arg[1])].undo_stack # <<>>

\* C22: after a close_file that actually closes the path p (document unmodified,
\* or force true): p is no longer registered and a file_closed event for p has
\* been emitted; if p was the active document and other documents remain open,
\* one of the remaining registered documents is active and a file_activated event
\* for it is emitted after the file_closed event; if p was active and no document
\* remains, the active pointer is empty; if p was not active, the active pointer
\* is unchanged.
C22_CloseUnregisters ==
    (/\ last.op = "close_file"
     /\ CloseTarget(last.pre, last.arg) # 0
     /\ \/ ~last.pre.editor_objects[CloseTarget(last.pre, last.arg)].modified
        \/ last.arg[2]) =>
        LET t == CloseTarget(last.pre, last.arg)
            p == last.pre.editor_objects[t].filepath
        IN  /\ ~DictHas(editors, p)
            /\ editors = SelectSeq(last.pre.editors, LAMBDA item : item[1] # p)
            /\ \E i \in Notified("file_closed") : notified[i] = FileClosed(p)
            /\ (last.pre.active_editor = t /\ editors # <<>>) =>
                   /\ active_editor \in { editors[i][2] : i \in 1 .. Len(editors) }
                   /\ \E i \in Notified("file_closed"), j \in Notified("file_activated") :
                          /\ i < j
                          /\ notified[i] = FileClosed(p)
                          /\ notified[j] = FileActivated(editor_objects[active_editor].filepath)
                          /\ DictGet(editors, notified[j][2]) = active_editor
            /\ (last.pre.active_editor = t /\ editors = <<>>) => active_editor = 0
            /\ last.pre.active_editor # t => active_editor = last.pre.active_editor

\* with two documents open, the active one, which was modified, has been closed
\* with force and the other one has become the active document
C22_Witness ==
    /\ last.op = "close_file"
    /\ last.res = "Closed, switched"
    /\ last.arg[2]
    /\ last.pre.editor_objects[last.pre.active_editor].modified
    /\ Len(last.pre.editors) = 2
    /\ Len(editors) = 1
    /\ active_editor = editors[1][2]
    /\ active_editor # last.pre.active_editor

\* the documented operation surface of the document kind cls
OperationSurface(cls) ==
    IF cls = "TextEditor" THEN TextKinds \cup {"show"} ELSE XmlKinds \cup {"show_tree"}

\* C23: execute_on_active(operation, args) when no document is active fails with
\* NoActiveEditorException and changes no document, no stack, the registry or
\* the active pointer.
C23_DispatchWithoutActive ==
    (last.op = "execute_on_active" /\ last.pre.active_editor = 0) =>
        /\ last.res = "NoActiveEditorException"
        /\ editor_objects = last.pre.editor_objects
        /\ editors = last.pre.editors
        /\ active_editor = 0
        /\ files = last.pre.files

\* an editing operation has been dispatched after the last open document, which
\* had been edited, was closed, and it raised NoActiveEditorException
C23_Witness ==
    /\ last.op = "execute_on_active"
    /\ last.arg \in {"append", "edit_text"}
    /\ last.pre.active_editor = 0
    /\ last.pre.editors = <<>>
    /\ last.pre.editor_objects # <<>>
    /\ last.res = "NoActiveEditorException"
    /\ files = last.pre.files

\* C24: execute_on_active invokes an operation on the active document only when
\* the name is one of the operations of the documented surface of that document
\* kind; for every other name, the names of other members of the editor object
\* included, it fails with an error and the document's content, modified flag
\* and stacks are unchanged.
C24_DispatchOnlySurface ==
    (/\ last.op = "execute_on_active"
     /\ last.pre.active_editor # 0
     /\ last.arg \notin OperationSurface(last.pre.editor_objects[last.pre.active_editor].cls)) =>
        /\ last.res # "ok"
        /\ editor_objects = last.pre.editor_objects

\* execute_on_active('clear_modified') on an active document with unsaved
\* changes has returned normally and the document counts as saved
C24_ClearModifiedDispatched ==
    /\ last.op = "execute_on_active"
    /\ last.arg = "clear_modified"
    /\ last.res = "ok"
    /\ last.pre.active_editor # 0
    /\ last.pre.editor_objects[last.pre.active_editor].modified
    /\ last.pre.editor_objects[last.pre.active_editor].undo_stack # <<>>
    /\ ~editor_objects[active_editor].modified

C25_WitnessNoActive ==
    /\ last.op = "redo"
    /\ last.pre.active_editor = 0
    /\ last.pre.editor_objects # <<>>
    /\ last.res = "Error: no active file"

\* the editor objects save_file(target) saves in the workspace w: every
\* registered one for 'all', the one registered under a path, the active one
\* when no target is given
SavedEditors(w, target) ==
    IF target = All THEN { w.editors[i][2] : i \in 1 .. Len(w.editors) }
    ELSE IF target # <<>>
    THEN (IF DictHas(w.editors, target) THEN {DictGet(w.editors, target)} ELSE {})
    ELSE {w.active_editor} \ {0}

\* save_file(target) clears the modified flag of exactly the documents it saves
\* and leaves the content, the stacks and every other field of every document,
\* the registry and the active pointer unchanged
SaveClearsFlagOnly ==
    last.op = "save_file" =>
        /\ editors = last.pre.editors
        /\ active_editor = last.pre.active_editor
        /\ DOMAIN editor_objects = DOMAIN last.pre.editor_objects
        /\ \A i \in DOMAIN editor_objects :
               editor_objects[i] =
                   IF i \in SavedEditors(last.pre, last.arg)
                   THEN [last.pre.editor_objects[i] EXCEPT !.modified = FALSE]
                   ELSE last.pre.editor_objects[i]

\* C26: save_file(target) clears the modified flag of exactly the documents it
\* saves (the active one for no target, the named one for a path, every open one
\* for 'all') and leaves the content, the undo_stack and the redo_stack of every
\* document and the registry and active pointer unchanged, so that an undo right
\* after a save that left the active document unmodified with a command on its
\* undo_stack undoes that command and sets the modified flag again.
C26_SaveThenUndo ==
    /\ SaveClearsFlagOnly
    /\ (/\ last.op = "undo"
        /\ last.chain # <<>>
        /\ last.pre.active_editor # 0
        /\ ~last.pre.editor_objects[last.pre.active_editor].modified
        /\ last.pre.editor_objects[last.pre.active_editor].undo_stack # <<>>) =>
           /\ last.res = "ok"
           /\ editor_objects[active_editor].undo_stack = <<>>
           /\ editor_objects[active_editor].modified

\* save_file('all') has saved two modified documents that each hold a command on
\* the undo_stack
C26_SavedAll ==
    /\ last.op = "save_file"
    /\ last.arg = All
    /\ Len(editors) = 2
    /\ \A i \in 1 .. 2 : /\ last.pre.editor_objects[editors[i][2]].modified
                          /\ editor_objects[editors[i][2]].undo_stack # <<>>
                          /\ ~editor_objects[editors[i][2]].modified

\* delete(1, 1, 0), save_file(), undo(): the undo has been reported as done and
\* the document is still marked unmodified
C26_UndoLeavesFlagClear ==
    /\ last.op = "undo"
    /\ last.chain = << <<>> >>
    /\ last.res = "ok"
    /\ last.pre.editor_objects[active_editor].undo_stack # <<>>
    /\ StackTop(last.pre.editor_objects[active_editor].undo_stack).kind = "delete"
    /\ ~editor_objects[active_editor].modified

\* C27: save_file emits one command_executed event per document saved, carrying
\* that document's path: one for the save of the active document, one for the
\* save of a named path, and for save_file('all') with n open documents one
\* event for each of the n saved documents.
C27_EventPerSave ==
    last.op = "save_file" =>
        LET saved == SavedEditors(last.pre, last.arg)
        IN  /\ Cardinality(Notified("command_executed")) = Cardinality(saved)
            /\ Notified("command_executed") = DOMAIN notified
            /\ \A i \in saved :
                   \E j \in DOMAIN notified :
                       notified[j][2] = editor_objects[i].filepath

\* save_file('all') with two open documents has emitted a single event, for the
\* path of the active document
C27_OneEventForAll ==
    /\ last.op = "save_file"
    /\ last.arg = All
    /\ Len(editors) = 2
    /\ notified = << CommandExecuted(editor_objects[active_editor].filepath, <<"save all">>) >>

\* C28: the first observer raises on every event, and notify does not let the
\* failure through: the observer attached after it receives the same events,
\* and the operation that emitted them completes with its registry,
\* active-pointer and document changes in place and returns its normal result:
\* load_file of a new path, load_file of an open path, edit_file and close_file.
C28_FailingObserverSwallowed ==
    /\ Update(Observers[1]) # "ok"
    /\ (last.op = "load_file" /\ last.res \in {"Loaded", "new buffer"}) =>
           /\ notified = << FileLoaded(last.arg, FALSE), FileActivated(last.arg) >>
           /\ DictHas(editors, last.arg)
           /\ active_editor = DictGet(editors, last.arg)
           /\ ~DictHas(last.pre.editors, last.arg)
    /\ (last.op \in {"load_file", "edit_file"} /\ DictHas(last.pre.editors, last.arg)) =>
           /\ last.res \in {"already open", "switched"}
           /\ notified = << FileActivated(last.arg) >>
           /\ active_editor = DictGet(editors, last.arg)
    /\ (last.op = "close_file" /\ last.res \in {"Closed", "Closed, switched"}) =>
           LET p == last.pre.editor_objects[CloseTarget(last.pre, last.arg)].filepath
           IN  /\ notified[1] = FileClosed(p)
               /\ notified[Len(notified)] = CommandExecuted(p, <<"close", p>>)
               /\ Len(notified) = IF last.res = "Closed" THEN 2 ELSE 3
               /\ ~DictHas(editors, p)
               /\ last.res = "Closed, switched" =>
                      /\ active_editor # last.pre.active_editor
                      /\ notified[2] = FileActivated(editor_objects[active_editor].filepath)

\* the active one of two open documents has been closed: the recording observer
\* has received file_closed, file_activated and command_executed although the
\* observer before it raised on each of them
C28_Witness ==
    /\ Observers = <<"raising", "recording">>
    /\ last.op = "close_file"
    /\ last.res = "Closed, switched"
    /\ Len(notified) = 3
    /\ Len(last.pre.editors) = 2
    /\ Len(editors) = 1

\* C29: undo() on a document with an empty undo_stack and redo() on a document
\* with an empty redo_stack are no-ops: they report that there is nothing to
\* undo or redo and leave the content, the modified flag and both stacks, as
\* every other editor and the registry, unchanged.
C29_NothingToUndoOrRedo ==
    (/\ last.op \in {"undo", "redo"}
     /\ last.pre.active_editor # 0
     /\ IF last.op = "undo"
        THEN last.pre.editor_objects[last.pre.active_editor].undo_stack = <<>>
        ELSE last.pre.editor_objects[last.pre.active_editor].redo_stack = <<>>) =>
        /\ last.res = "none"
        /\ editor_objects = last.pre.editor_objects
        /\ editors = last.pre.editors
        /\ active_editor = last.pre.active_editor

\* undo() has been called a second time on a document whose only command was
\* already undone: the unmodified document of the first undo is left as it was
C29_Witness ==
    /\ last.op = "undo"
    /\ last.res = "none"
    /\ active_editor # 0
    /\ editor_objects[active_editor].undo_stack = <<>>
    /\ editor_objects[active_editor].redo_stack # <<>>
    /\ editor_objects[active_editor].modified
    /\ editor_objects = last.pre.editor_objects

\* redo() has been called on a freshly loaded, unmodified document
C29_WitnessRedo ==
    /\ last.op = "redo"
    /\ last.res = "none"
    /\ active_editor # 0
    /\ ~editor_objects[active_editor].modified
    /\ editor_objects[active_editor].undo_stack = <<>>

\* the int an argument of show stands for, None standing for the given default
ShowBound(arg, default) == IF arg = <<>> THEN default ELSE arg[1]

\* C30: show(start_line, end_line) returns the lines start_line..end_line in
\* order, each with its 1-based line number (the full range when no bounds are
\* given), and raises LineOutOfRangeException whenever a given start_line or
\* end_line lies outside 1..len(content) or start_line > end_line, for every
\* document including one with zero lines; show never changes the content, the
\* modified flag or the stacks.
C30_Show ==
    last.op = "show" =>
        LET n == Len(content)
            start == ShowBound(last.arg[1], 1)
            end == ShowBound(last.arg[2], n)
            given == { i \in 1 .. 2 : last.arg[i] # <<>> }
            invalid == \/ \E i \in given : last.arg[i][1] < 1 \/ last.arg[i][1] > n
                       \/ (given # {} /\ start > end)
            numbered == Split(last.res.res)
        IN  /\ Snap = last.pre
            /\ invalid => last.res.err \in PositionError
            /\ ~invalid =>
                   /\ last.res.err = "ok"
                   /\ n = 0 => last.res.res = <<>>
                   /\ n > 0 =>
                          /\ Len(numbered) = end - start + 1
                          /\ \A k \in 1 .. Len(numbered) :
                                 numbered[k] = Str(start + k - 1) \o <<":", " ">>
                                                   \o content[start + k - 1]

\* show(1, 1) on a document with zero lines has returned the empty str
C30_ShowOfEmptyDocument ==
    /\ last.op = "show"
    /\ content = <<>>
    /\ last.arg = << <<1>>, <<1>> >>
    /\ last.res = [err |-> "ok", res |-> <<>>]

\* show(2, 2) on a document of two lines has returned '2: hi'
C30_ShowOfSecondLine ==
    /\ last.op = "show"
    /\ Len(content) = 2
    /\ last.arg = << <<2>>, <<2>> >>
    /\ last.res = [err |-> "ok", res |-> <<"2", ":", " ", "h", "i">>]

\* the ids of the id-index of the tree t
IndexedIds(t) == { t.id_map[i][1] : i \in 1 .. Len(t.id_map) }

\* the last call saved, closed and loaded a tree document
ReloadedTree == last.op = "save_close_load" /\ last.pre.root # 0

\* C31: for a tree document built by replaceRoot, appendChild, insertBefore,
\* setAttribute and editText, saving it, closing it and loading the same path
\* yields a tree with the same root tag and id, the same set of ids, the same
\* parent and child order for every node, and the same text and attributes for
\* every id.
C31_TreeRoundTrip ==
    ReloadedTree
        => /\ last.res = "ok"
           /\ root # 0
           /\ NodeValue(nodes, root) = NodeValue(last.pre.nodes, last.pre.root)
           /\ IndexedIds(Model) = IndexedIds(last.pre)

\* the round trip of a tree whose texts have no reserved character and no blank
\* at either end preserves it
PlainTexts(t) ==
    \A o \in TreeNodes(t) :
        /\ ~HasMarkup(t.nodes[o].text)
        /\ Strip(t.nodes[o].text) = t.nodes[o].text
        /\ t.nodes[o].id # ""

C31_PlainTreeRoundTrip ==
    (ReloadedTree /\ PlainTexts(last.pre)
       /\ \A o, q \in TreeNodes(last.pre) :
              last.pre.nodes[o].id = last.pre.nodes[q].id => o = q)
        => /\ last.res = "ok"
           /\ root # 0
           /\ NodeValue(nodes, root) = NodeValue(last.pre.nodes, last.pre.root)

C31_PlainWitness ==
    /\ ReloadedTree /\ PlainTexts(last.pre) /\ last.res = "ok"
    /\ call.kind = "append_child" /\ Len(last.pre.undo_stack) = 1

\* C39: for a text document with any reachable line sequence (a single empty
\* line, trailing empty lines and the empty document included), saving it and
\* loading it yields the same line sequence.
C39_TextRoundTrip ==
    (last.op = "save_close_load" /\ last.pre.root = 0)
        => last.res = "ok" /\ root = 0 /\ content = last.pre.content

\* C32: after a successful remove_attribute(id, name) followed by undo(), the
\* ordered attribute map of the element equals the map before the removal, the
\* position of `name` included, so the serialized element is the same.
C32_RemoveAttributeUndoKeepsOrder ==
    (UndoRightAfterExecute /\ call.kind = "remove_attribute") =>
        LET e == get_element(last.chain[1], call.element_id)
        IN  nodes[e].attributes = last.chain[1].nodes[e].attributes

\* the undo of a remove_attribute restores the attribute map as a map: the same
\* names with the same values
C32_RemoveAttributeUndoKeepsItems ==
    (UndoRightAfterExecute /\ call.kind = "remove_attribute") =>
        LET e == get_element(last.chain[1], call.element_id)
        IN  /\ DictItems(nodes[e].attributes) = DictItems(last.chain[1].nodes[e].attributes)
            /\ Len(nodes[e].attributes) = Len(last.chain[1].nodes[e].attributes)

\* remove_attribute('b1', 'k') on <book id="b1" k="v" n="1"> has been undone and
\* 'k' is the last attribute
C32_MovedToEnd ==
    /\ UndoRightAfterExecute /\ call.kind = "remove_attribute"
    /\ call.element_id = "b1" /\ call.attr_name = "k"
    /\ Len(nodes) = 2
    /\ last.chain[1].nodes[2].attributes = << <<"id", "b1">>, <<"k", "v">>, <<"n", "1">> >>
    /\ nodes[2].attributes = << <<"id", "b1">>, <<"n", "1">>, <<"k", "v">> >>

\* C33: in every state of the workspace that load_file, init_file, edit_file,
\* close_file and save_file reach, whether they succeed or fail, the active
\* pointer is empty or refers to a document registered under its own path, and
\* it is empty exactly when the registry is empty.
C33_ActivePointerRegistered ==
    /\ active_editor # 0 =>
           /\ active_editor \in DOMAIN editor_objects
           /\ editor_objects[active_editor] # Collected
           /\ DictHas(editors, editor_objects[active_editor].filepath)
           /\ DictGet(editors, editor_objects[active_editor].filepath) = active_editor
    /\ (active_editor = 0) <=> (editors = <<>>)

\* the active document has been closed while another one was open, and the
\* pointer is at the document registered last
C33_Witness ==
    /\ last.op = "close_file" /\ last.res = "Closed, switched"
    /\ active_editor # 0
    /\ editors # <<>>
    /\ last.pre.active_editor # active_editor

\* init_file with with_log has failed in a workspace with one open document
C33_WitnessInitFails ==
    /\ last.op = "init_file" /\ last.res = enable_logging_with_excludes
    /\ Len(editors) = 1 /\ active_editor = editors[1][2]

\* C34: with several documents open, a dispatched operation, an undo and a redo
\* change only the active document, and switching the active document changes
\* no document: after switching away and back every document has the undo and
\* redo history it had.
C34_OnlyActiveChanges ==
    /\ last.op \in {"execute_on_active", "undo", "redo"} =>
           /\ editors = last.pre.editors
           /\ active_editor = last.pre.active_editor
           /\ DOMAIN editor_objects = DOMAIN last.pre.editor_objects
           /\ \A i \in DOMAIN editor_objects :
                  i # last.pre.active_editor =>
                      editor_objects[i] = last.pre.editor_objects[i]
    /\ (last.op = "edit_file" \/ (last.op = "load_file" /\ last.res = "already open")) =>
           /\ editor_objects = last.pre.editor_objects
           /\ editors = last.pre.editors

\* with two documents open, both with a command to undo, an operation has been
\* dispatched to the active one and has changed it
C34_Witness ==
    /\ last.op = "execute_on_active" /\ last.res = "ok"
    /\ Len(editors) = 2
    /\ \A i \in 1 .. 2 : editor_objects[editors[i][2]].undo_stack # <<>>
    /\ editor_objects[active_editor] # last.pre.editor_objects[active_editor]

\* the active document has been switched between two documents that both have
\* a command to undo
C34_WitnessSwitched ==
    /\ last.op = "edit_file" /\ last.res = "switched"
    /\ Len(editors) = 2
    /\ active_editor # last.pre.active_editor
    /\ \A i \in 1 .. 2 : editor_objects[editors[i][2]].undo_stack # <<>>

\* the content of a document: its lines, and for a tree document the value of
\* its tree
DocValue(m) == IF m.root = 0 THEN <<m.content>> ELSE <<m.content, NodeValue(m.nodes, m.root)>>

\* the open document i has unsaved changes: its content differs from its content
\* when it was last saved, or loaded when it was never saved
Unsaved(objects, i) == DocValue(EditorModel(objects[i])) # DocValue(last_saved[i])

C35_ClosedUnsaved ==
    /\ last.op = "close_file" /\ last.res \in {"Closed", "Closed, switched"}
    /\ ~last.arg[2]
    /\ \E k \in DOMAIN last.pre.editors :
           LET i == last.pre.editors[k][2]
           IN  editor_objects[i] = Collected /\ Unsaved(last.pre.editor_objects, i)

\* C36: the active_file of the statistics tracker is the path of the active
\* document (empty when there is none); closing a document that is not the
\* active one does not stop the timing of the active one.
C36_StatisticsFollowsActive ==
    active_file = IF active_editor = 0 THEN <<>>
                  ELSE editor_objects[active_editor].filepath

\* a document that was not the active one has been closed, the tracker was
\* timing the active one before, and times nothing now
C36_ClosedInactiveStopsTiming ==
    /\ last.op = "close_file" /\ last.res = "Closed"
    /\ active_editor # 0
    /\ last.pre.active_editor = active_editor
    /\ last.arg[1] # editor_objects[active_editor].filepath
    /\ last.arg[1] # <<>>
    /\ active_file = <<>>

\* apart from the closing of a document that is not the active one, the tracker
\* follows the active document of every operation that notifies at all
C36_FollowsWhenActivated ==
    (\E i \in DOMAIN notified : notified[i][1] = "file_activated") =>
        /\ active_editor # 0
        /\ active_file = editor_objects[active_editor].filepath

\* the last call was a load_file of a path that was not open, and it returned an
\* error message
LoadFailed ==
    /\ last.op = "load_file"
    /\ last.res \notin {"already open", "Loaded", "new buffer"}
    /\ ~DictHas(last.pre.editors, last.arg)

\* C37: whenever load_file(path) reports an error for a path that was not open,
\* for a text or an XML path, the registry and the active pointer are what they
\* were before the call: no document is registered under that path and the
\* document that was active is still active.
C37_FailedLoadChangesNothing ==
    LoadFailed =>
        /\ editors = last.pre.editors
        /\ active_editor = last.pre.active_editor
        /\ ~DictHas(editors, last.arg)

\* load_file of a text path has returned an error with one document open before,
\* and the new document is registered and active
C37_FailedLoadRegistered ==
    /\ LoadFailed
    /\ last.pre.active_editor # 0
    /\ DictHas(editors, last.arg)
    /\ active_editor = DictGet(editors, last.arg)
    /\ active_editor # last.pre.active_editor

\* a load_file that fails in load_from_file (an XML file that is not well
\* formed) leaves the registry and the active pointer as they were
C37_UnreadableFileChangesNothing ==
    (LoadFailed /\ last.res = "Error: IOError") =>
        /\ editors = last.pre.editors
        /\ active_editor = last.pre.active_editor
        /\ editor_objects = last.pre.editor_objects

C37_UnreadableWitness ==
    LoadFailed /\ last.res = "Error: IOError" /\ last.pre.active_editor # 0

\* C38: after any sequence of successful executes, undos and redos on one
\* document, undo() and redo() raise no error: every undo finds the lines, nodes
\* and id-index entries it needs, and every redo passes the validation of the
\* command it executes again.
C38_UndoRedoNeverRaise ==
    last.op \in {"undo", "redo"} => last.res \in {"ok", "none"}

\* two tree operations have been executed and a redo has put the second one, an
\* append_child that had been undone, back on the undo stack
C38_Witness ==
    /\ last.op = "redo" /\ last.res = "ok"
    /\ root # 0
    /\ Len(undo_stack) = 2 /\ redo_stack = <<>>
    /\ undo_stack[2].kind = "append_child"
    /\ last.pre.redo_stack # <<>>

\* the number of positions of the list l that hold x
Occurrences(l, x) == Cardinality({ i \in 1 .. Len(l) : l[i] = x })

\* C40: in every state of an open tree document the root is present and has no
\* parent, and parent and child references agree: every node of the tree other
\* than the root has a parent, it occurs exactly once in that parent's children,
\* and every node in a node's children has that node as its parent; across
\* insert_before, append_child, delete_element, append_root and any undos and
\* redos.
C40_ParentChildAgree ==
    root # 0 =>
        /\ root \in DOMAIN nodes
        /\ nodes[root].parent = 0
        /\ \A o \in TreeNodes(Model) :
               /\ \A i \in 1 .. Len(nodes[o].children) :
                      /\ nodes[o].children[i] \in DOMAIN nodes
                      /\ nodes[nodes[o].children[i]].parent = o
               /\ o # root =>
                      /\ nodes[o].parent \in TreeNodes(Model)
                      /\ Occurrences(nodes[nodes[o].parent].children, o) = 1

\* the deletion of a subtree has been undone: the subtree, a node with a child of
\* its own, is back in a tree of at least three nodes
C40_Witness ==
    /\ last.op = "undo" /\ last.res = "ok"
    /\ root # 0
    /\ redo_stack # <<>>
    /\ StackTop(redo_stack).kind = "delete_element"
    /\ Cardinality(TreeNodes(Model)) >= 3
    /\ \E o \in TreeNodes(Model) : o # root /\ nodes[o].children # <<>>
====
